---- MODULE Spec2Model ----
(***************************************************************************)
(* A model of QQuaternion (src/gui/math3d/qquaternion.cpp).  The class     *)
(* computes in C++ `float`; the model computes in the same format: every   *)
(* arithmetic operator below is IEEE-754 binary32 arithmetic with          *)
(* round-to-nearest-even, gradual underflow, signed zeros, infinities and  *)
(* NaN, carried out on integers.                                           *)
(***************************************************************************)
EXTENDS Integers, Sequences, FiniteSets, TLC

(***************************************************************************)
(* binary32.  A float is a record [k, s, m, e]: kind k, sign s, and for a  *)
(* finite value the magnitude m * 2^e with 0 <= m < 2^24.  Finite values   *)
(* are kept canonical (m >= 2^23 unless e = EMin; zero is m = 0, e = EMin) *)
(* so that equal records are equal bit patterns.                           *)
(***************************************************************************)
MantBits == 24
EMin == -149
EMax == 104

Pow2(n) == 2^n
Hidden == Pow2(MantBits - 1)
MantLimit == Pow2(MantBits)

Fin(s, m, e) == [k |-> "fin", s |-> s, m |-> m, e |-> e]
Zero(s) == Fin(s, 0, EMin)
Inf(s) == [k |-> "inf", s |-> s, m |-> 0, e |-> 0]
NaN == [k |-> "nan", s |-> 0, m |-> 0, e |-> 0]

isNaN(a) == a.k = "nan"
isInf(a) == a.k = "inf"
isFinite(a) == a.k = "fin"
isZero(a) == a.k = "fin" /\ a.m = 0

RECURSIVE BitLen(_)
BitLen(n) == IF n = 0 THEN 0 ELSE 1 + BitLen(n \div 2)

\* The float of sign s and magnitude mr * 2^er, mr <= 2^24 already rounded
PackFloat(s, mr, er) ==
    IF mr = 0 THEN Zero(s)
    ELSE IF mr = MantLimit
         THEN (IF er + 1 > EMax THEN Inf(s) ELSE Fin(s, Hidden, er + 1))
    ELSE IF er > EMax THEN Inf(s)
    ELSE Fin(s, mr, er)

\* Round to nearest, ties to even: cmpHalf compares the dropped part with
\* half a unit of quo (-1 below, 0 equal, 1 above)
RoundUp(s, quo, cmpHalf, er, sticky) ==
    PackFloat(s,
              IF cmpHalf = 1 \/ (cmpHalf = 0 /\ (sticky \/ quo % 2 = 1))
              THEN quo + 1 ELSE quo,
              er)

\* M * 2^e with its last sh bits dropped (sh <= 0 appends -sh zero bits)
RoundShift(s, M, e, sticky, sh) ==
    RoundUp(s,
            IF sh <= 0 THEN M * Pow2(-sh)
            ELSE IF sh >= 31 THEN 0 ELSE M \div Pow2(sh),
            IF sh <= 0 \/ sh >= 32 THEN -1
            ELSE IF sh = 31
                 THEN (IF M > Pow2(30) THEN 1 ELSE IF M = Pow2(30) THEN 0 ELSE -1)
            ELSE IF M % Pow2(sh) > Pow2(sh - 1) THEN 1
            ELSE IF M % Pow2(sh) = Pow2(sh - 1) THEN 0 ELSE -1,
            e + sh, sticky)

\* The number of bits to drop from a magnitude of nb bits and exponent e
ShiftOf(e, nb) ==
    IF e + nb - MantBits < EMin THEN EMin - e ELSE nb - MantBits

\* Rounds the exact magnitude M * 2^e (M < 2^31; `sticky` says that a non-zero
\* part below M's last bit was dropped) to the nearest float, ties to even.
RoundPack(s, M, e, sticky) ==
    IF M = 0 THEN Zero(s)
    ELSE RoundShift(s, M, e, sticky, ShiftOf(e, BitLen(M)))

\* A finite non-zero float with its significand shifted up to 24 bits (the
\* exponent of a subnormal goes below EMin): <<m, e>>.
ShiftUp(a, sh) == <<a.m * Pow2(sh), a.e - sh>>
Normal(a) == ShiftUp(a, MantBits - BitLen(a.m))

fneg(a) == IF a.k = "nan" THEN a ELSE [a EXCEPT !.s = 1 - a.s]
fabs(a) == IF a.k = "nan" THEN a ELSE [a EXCEPT !.s = 0]

\* The significand m with its last `drop` bits dropped and, when one of them
\* was set, the last kept bit set (a sticky bit)
Jam(m, drop) ==
    IF drop <= 0 THEN m
    ELSE IF drop >= 25 THEN 1
    ELSE IF m % Pow2(drop) # 0
         THEN (m \div Pow2(drop)) - ((m \div Pow2(drop)) % 2) + 1
    ELSE m \div Pow2(drop)

AddPack(sum, e) ==
    IF sum = 0 THEN Zero(0)
    ELSE RoundPack(IF sum < 0 THEN 1 ELSE 0, IF sum < 0 THEN -sum ELSE sum,
                   e, FALSE)

\* hi + lo for finite non-zero hi, lo with hi.e - lo.e = d >= 0: hi gets up
\* to six guard bits, lo is aligned to them
AddAligned(hi, lo, d) ==
    IF d <= 6
    THEN AddPack((IF hi.s = 0 THEN 1 ELSE -1) * hi.m * Pow2(d)
                 + (IF lo.s = 0 THEN 1 ELSE -1) * lo.m, hi.e - d)
    ELSE AddPack((IF hi.s = 0 THEN 1 ELSE -1) * hi.m * Pow2(6)
                 + (IF lo.s = 0 THEN 1 ELSE -1) * Jam(lo.m, d - 6), hi.e - 6)

\* a + b
fadd(a, b) ==
    IF a.k = "nan" \/ b.k = "nan" THEN NaN
    ELSE IF a.k = "inf" THEN (IF b.k = "inf" /\ b.s # a.s THEN NaN ELSE a)
    ELSE IF b.k = "inf" THEN b
    ELSE IF a.m = 0 /\ b.m = 0 THEN Zero(IF a.s = 1 /\ b.s = 1 THEN 1 ELSE 0)
    ELSE IF a.m = 0 THEN b
    ELSE IF b.m = 0 THEN a
    ELSE AddAligned(IF a.e >= b.e THEN a ELSE b, IF a.e >= b.e THEN b ELSE a,
                    IF a.e >= b.e THEN a.e - b.e ELSE b.e - a.e)

\* a - b
fsub(a, b) == fadd(a, fneg(b))

\* The 48-bit product hi * 2^24 + lo, times 2^(e - 18)
MulPack(s, hi, lo, e) ==
    RoundPack(s, hi * 64 + lo \div 262144, e, lo % 262144 # 0)

\* The product from its 12-bit limbs: hh * 2^24 + mid * 2^12 + ll
MulLimbs(s, hh, mid, ll, e) ==
    MulPack(s,
            hh + mid \div 4096 + (ll + (mid % 4096) * 4096) \div MantLimit,
            (ll + (mid % 4096) * 4096) % MantLimit, e)

MulNormal(s, na, nb) ==
    MulLimbs(s, (na[1] \div 4096) * (nb[1] \div 4096),
             (na[1] \div 4096) * (nb[1] % 4096)
                 + (na[1] % 4096) * (nb[1] \div 4096),
             (na[1] % 4096) * (nb[1] % 4096), na[2] + nb[2] + 18)

\* a * b
fmul(a, b) ==
    IF a.k = "nan" \/ b.k = "nan" THEN NaN
    ELSE IF a.k = "inf" \/ b.k = "inf"
         THEN (IF isZero(a) \/ isZero(b) THEN NaN ELSE Inf((a.s + b.s) % 2))
    ELSE IF a.m = 0 \/ b.m = 0 THEN Zero((a.s + b.s) % 2)
    ELSE MulNormal((a.s + b.s) % 2, Normal(a), Normal(b))

\* One step of long division by d: <<quotient, remainder>> carried `bits` on.
DivStep(qr, d, bits) ==
    <<qr[1] * Pow2(bits) + (qr[2] * Pow2(bits)) \div d, (qr[2] * Pow2(bits)) % d>>

\* The float nearest to qr[1] * 2^e, where a remainder qr[2] was dropped
PackQR(s, qr, e) == RoundPack(s, qr[1], e, qr[2] # 0)

DivNormal(s, na, nb) ==
    PackQR(s,
           DivStep(DivStep(DivStep(DivStep(DivStep(
               <<na[1] \div nb[1], na[1] % nb[1]>>,
               nb[1], 6), nb[1], 6), nb[1], 6), nb[1], 6), nb[1], 2),
           na[2] - nb[2] - 26)

\* a / b
fdiv(a, b) ==
    IF a.k = "nan" \/ b.k = "nan" THEN NaN
    ELSE IF a.k = "inf" THEN (IF b.k = "inf" THEN NaN ELSE Inf((a.s + b.s) % 2))
    ELSE IF b.k = "inf" THEN Zero((a.s + b.s) % 2)
    ELSE IF b.m = 0 THEN (IF a.m = 0 THEN NaN ELSE Inf((a.s + b.s) % 2))
    ELSE IF a.m = 0 THEN Zero((a.s + b.s) % 2)
    ELSE DivNormal((a.s + b.s) % 2, Normal(a), Normal(b))

\* The digit-by-digit square root of mm * 4^14, two bits of the radicand a
\* step: <<root, remainder>>.
RECURSIVE SqrtIter(_, _, _, _)
RECURSIVE SqrtStep(_, _, _, _)
SqrtStep(i, mm, r4, root) ==
    IF r4 >= root * 4 + 1
    THEN SqrtIter(i + 1, mm, r4 - (root * 4 + 1), root * 2 + 1)
    ELSE SqrtIter(i + 1, mm, r4, root * 2)
SqrtIter(i, mm, rem, root) ==
    IF i = 27 THEN <<root, rem>>
    ELSE SqrtStep(i, mm,
                  rem * 4 + (IF i <= 12 THEN (mm \div Pow2(2 * (12 - i))) % 4
                             ELSE 0),
                  root)

SqrtNormal(na) ==
    IF na[2] % 2 # 0
    THEN PackQR(0, SqrtIter(0, 2 * na[1], 0, 0), (na[2] - 1) \div 2 - 14)
    ELSE PackQR(0, SqrtIter(0, na[1], 0, 0), na[2] \div 2 - 14)

\* std::sqrt(a)
fsqrt(a) ==
    IF a.k = "nan" THEN NaN
    ELSE IF a.k = "fin" /\ a.m = 0 THEN a
    ELSE IF a.s = 1 THEN NaN
    ELSE IF a.k = "inf" THEN a
    ELSE SqrtNormal(Normal(a))

\* a < b, a <= b, a > b, a >= b, a == b as C++ compares floats
MagLess(a, b) ==
    IF a.k = "inf" THEN FALSE
    ELSE IF b.k = "inf" THEN TRUE
    ELSE a.e < b.e \/ (a.e = b.e /\ a.m < b.m)
feq(a, b) ==
    /\ a.k # "nan" /\ b.k # "nan"
    /\ \/ a = b
       \/ isZero(a) /\ isZero(b)
flt(a, b) ==
    /\ a.k # "nan" /\ b.k # "nan"
    /\ ~feq(a, b)
    /\ IF a.s # b.s THEN a.s = 1
       ELSE IF a.s = 0 THEN MagLess(a, b) ELSE MagLess(b, a)
fle(a, b) == flt(a, b) \/ feq(a, b)
fgt(a, b) == flt(b, a)
fge(a, b) == fle(b, a)

\* (float)n for an integer |n| < 2^24, and f * 2^k
IntToFloat(n) ==
    RoundPack(IF n < 0 THEN 1 ELSE 0, IF n < 0 THEN -n ELSE n, 0, FALSE)
ldexp(f, k) == fmul(f, Fin(0, Hidden, k - (MantBits - 1)))

\* quo, or quo + 1 when the remainder r is above half (h), ties to even
RoundHalfEven(quo, r, h) ==
    IF r > h \/ (r = h /\ quo % 2 = 1) THEN quo + 1 ELSE quo

\* |std::rint(a)| of a finite float, as an integer (arguments below 2^30)
RIntMag(a) ==
    IF a.m = 0 \/ a.e < -MantBits THEN 0
    ELSE IF a.e >= 0 THEN a.m * Pow2(a.e)
    ELSE RoundHalfEven(a.m \div Pow2(-a.e), a.m % Pow2(-a.e), Pow2(-a.e - 1))
RInt(a) == IF a.s = 1 THEN -RIntMag(a) ELSE RIntMag(a)

(***************************************************************************)
(* The float literals of the source.                                       *)
(***************************************************************************)
f_0 == Zero(0)
f_1 == Fin(0, 8388608, -23)
f_2 == Fin(0, 8388608, -22)
f_0_5 == Fin(0, 8388608, -24)
f_0_25 == Fin(0, 8388608, -25)
\* 0.00001f
f_0_00001 == Fin(0, 10995116, -40)
\* 100000.f
f_100000 == Fin(0, 12800000, -7)
\* 0.00000001f
f_0_00000001 == Fin(0, 11258999, -50)
\* The largest float below the double literal 0.0000001: a float x satisfies
\* x > 0.0000001 (compared as doubles) exactly when x > f_below_1em7.
f_below_1em7 == Fin(0, 14073748, -47)
\* float(M_PI / 180) and float(180 / M_PI)
f_pi_180 == Fin(0, 9370165, -29)
f_180_pi == Fin(0, 15019745, -18)

(***************************************************************************)
(* <cmath>: sinf, cosf and acosf, computed in binary32 (Cody-Waite         *)
(* reduction by pi/2 in four parts and Taylor kernels; acosf after the     *)
(* fdlibm/musl e_acosf.c).  Each agrees with glibc to within one unit in   *)
(* the last place on [-7, 7] and [-1, 1].                                  *)
(***************************************************************************)
\* sin(r) and cos(r) for |r| <= pi/4, z = r * r
SinPoly(r, z) ==
    fadd(r, fmul(fadd(fmul(fadd(fmul(fadd(fmul(z, Fin(0, 12119837, -42)),
                                          Fin(1, 13634817, -36)), z),
                                Fin(0, 8947849, -30)), z),
                      Fin(1, 11184811, -26)),
                 fmul(z, r)))
k_sin(r) == SinPoly(r, fmul(r, r))
CosPoly(z) ==
    fsub(f_1,
         fsub(fmul(f_0_5, z),
              fmul(fadd(fmul(fadd(fmul(fadd(fmul(z, Fin(1, 9695870, -45)),
                                            Fin(0, 13634817, -39)), z),
                                  Fin(1, 11930465, -33)), z),
                        Fin(0, 11184811, -28)),
                   fmul(z, z))))
k_cos(r) == CosPoly(fmul(r, r))

\* x - nf * pi/2, pi/2 taken in four parts
SubPiO2(x, nf) ==
    fsub(fsub(fsub(fsub(x, fmul(nf, Fin(0, 13172736, -23))),
                   fmul(nf, Fin(0, 16621568, -35))),
              fmul(nf, Fin(0, 10625024, -47))),
         fmul(nf, Fin(0, 11821056, -62)))
\* x = n * pi/2 + r with |r| <= pi/4: [n, r]
ReduceBy(x, n) == [n |-> n, r |-> SubPiO2(x, IntToFloat(n))]
ReducePiO2(x) == ReduceBy(x, RInt(fmul(x, Fin(0, 10680707, -24))))

Negate(neg, v) == IF neg THEN fneg(v) ELSE v
\* sin(n * pi/2 + r)
Quadrant(n, r) ==
    Negate(n % 4 >= 2, IF n % 2 = 0 THEN k_sin(r) ELSE k_cos(r))
SinShifted(rd, quarters) == Quadrant(rd.n + quarters, rd.r)
\* std::sin(x), std::cos(x)
sinf(x) == IF x.k # "fin" THEN NaN ELSE SinShifted(ReducePiO2(x), 0)
cosf(x) == IF x.k # "fin" THEN NaN ELSE SinShifted(ReducePiO2(x), 1)

pio2_hi == Fin(0, 13176794, -23)
pio2_lo == Fin(0, 10625384, -47)
acos_R(z) ==
    fdiv(fmul(z, fadd(Fin(0, 11184757, -26),
                      fmul(z, fadd(Fin(1, 11473850, -28),
                                   fmul(z, Fin(1, 9294699, -30)))))),
         fadd(f_1, fmul(z, Fin(1, 11855278, -24))))
\* acos(x) for x < -0.5: z = (1 + x) / 2, s = sqrt(z)
AcosLow(z, s) ==
    fmul(f_2, fsub(pio2_hi, fadd(s, fsub(fmul(acos_R(z), s), pio2_lo))))
\* acos(x) for x > 0.5: z = (1 - x) / 2, s = sqrt(z), df = s cut to 12 bits
AcosHigh(z, s, df) ==
    fmul(f_2, fadd(df, fadd(fmul(acos_R(z), s),
                            fdiv(fsub(z, fmul(df, df)), fadd(s, df)))))
AcosRoot(z, s, low) ==
    IF low THEN AcosLow(z, s)
    ELSE AcosHigh(z, s, Fin(0, s.m - (s.m % 4096), s.e))
AcosHalf(z, low) == AcosRoot(z, fsqrt(z), low)
\* std::acos(x)
acosf(x) ==
    IF x.k = "nan" THEN NaN
    ELSE IF fge(fabs(x), f_1)
         THEN (IF feq(fabs(x), f_1)
               THEN (IF x.s = 1 THEN fmul(f_2, pio2_hi) ELSE f_0)
               ELSE NaN)
    ELSE IF flt(fabs(x), f_0_5)
         THEN (IF fle(fabs(x), Fin(0, Hidden, -49)) THEN pio2_hi
               ELSE fsub(pio2_hi,
                         fsub(x, fsub(pio2_lo,
                                      fmul(x, acos_R(fmul(x, x)))))))
    ELSE AcosHalf(fmul(fsub(f_1, fabs(x)), f_0_5), x.s = 1)

\* std::atan after musl atanf.c: the argument reduced to one of four ranges
\* (id 0..3, or -1 for |x| < 0.4375), then an odd polynomial
atanhi == [i \in 0..3 |->
             IF i = 0 THEN Fin(0, 15557432, -25)
             ELSE IF i = 1 THEN Fin(0, 13176794, -24)
             ELSE IF i = 2 THEN Fin(0, 16488542, -24)
             ELSE Fin(0, 13176794, -23)]
atanlo == [i \in 0..3 |->
             IF i = 0 THEN Fin(0, 11286377, -51)
             ELSE IF i = 1 THEN Fin(0, 10625384, -48)
             ELSE IF i = 2 THEN Fin(0, 9703348, -48)
             ELSE Fin(0, 10625384, -47)]
AtanSum(x, z, w) ==
    fmul(x, fadd(fmul(z, fadd(Fin(0, 11184809, -25),
                              fmul(w, fadd(Fin(0, 9565453, -26),
                                           fmul(w, Fin(0, 16559141, -28)))))),
                 fmul(w, fadd(Fin(1, 13421208, -26),
                              fmul(w, Fin(1, 14291527, -27))))))
AtanPoly(x, z) == AtanSum(x, z, fmul(z, z))
AtanArg(x) ==
    IF flt(x, Fin(0, 14680064, -25)) THEN [id |-> -1, x |-> x]
    ELSE IF flt(x, Fin(0, 11534336, -24))
    THEN [id |-> 0, x |-> fdiv(fsub(fmul(f_2, x), f_1), fadd(f_2, x))]
    ELSE IF flt(x, Fin(0, 9961472, -23))
    THEN [id |-> 1, x |-> fdiv(fsub(x, f_1), fadd(x, f_1))]
    ELSE IF flt(x, Fin(0, 10223616, -22))
    THEN [id |-> 2, x |-> fdiv(fsub(x, Fin(0, 12582912, -23)),
                               fadd(f_1, fmul(Fin(0, 12582912, -23), x)))]
    ELSE [id |-> 3, x |-> fdiv(fneg(f_1), x)]
AtanFinish(a, p) ==
    IF a.id < 0 THEN fsub(a.x, p)
    ELSE fsub(atanhi[a.id], fsub(fsub(p, atanlo[a.id]), a.x))
AtanReduced(a) == AtanFinish(a, AtanPoly(a.x, fmul(a.x, a.x)))
\* atan(x) for x >= 0
AtanMag(x) ==
    IF x.k = "inf" \/ fge(x, Fin(0, Hidden, 3)) THEN atanhi[3]
    ELSE IF flt(x, Fin(0, Hidden, -35)) THEN x
    ELSE AtanReduced(AtanArg(x))
atanf(x) == IF x.k = "nan" THEN NaN ELSE Negate(x.s = 1, AtanMag(fabs(x)))

\* std::atan2(y, x) after musl atan2f.c; m = 2 * sign(x) + sign(y)
f_pi == Fin(0, 13176795, -22)
f_pi_lo == Fin(1, 12303662, -47)
M_PI_2 == Fin(0, 13176795, -23)
AtanQuadrant(m, z) ==
    IF m = 0 THEN z
    ELSE IF m = 1 THEN fneg(z)
    ELSE IF m = 2 THEN fsub(f_pi, fsub(z, f_pi_lo))
    ELSE fsub(fsub(z, f_pi_lo), f_pi)
atan2f(y, x) ==
    IF y.k = "nan" \/ x.k = "nan" THEN NaN
    ELSE IF isZero(y)
    THEN (IF x.s = 0 THEN y ELSE Negate(y.s = 1, f_pi))
    ELSE IF isZero(x) THEN Negate(y.s = 1, M_PI_2)
    ELSE IF isInf(x)
    THEN (IF isInf(y)
          THEN Negate(y.s = 1, IF x.s = 0 THEN ldexp(f_pi, -2)
                               ELSE fmul(Fin(0, 12582912, -22), ldexp(f_pi, -2)))
          ELSE Negate(y.s = 1, IF x.s = 0 THEN f_0 ELSE f_pi))
    ELSE IF x # f_1 /\ (isInf(y) \/ MagLess(ldexp(fabs(x), 26), fabs(y)))
    THEN Negate(y.s = 1, M_PI_2)
    ELSE AtanQuadrant(2 * x.s + y.s,
                      IF x.s = 1 /\ MagLess(ldexp(fabs(y), 26), fabs(x))
                      THEN f_0
                      ELSE AtanMag(fabs(fdiv(y, x))))

\* std::asin(x) after musl asinf.c, the range |x| >= 0.5 computed in float
AsinRoot(z, s) == fsub(M_PI_2, fmul(f_2, fadd(s, fmul(s, acos_R(z)))))
AsinHigh(z) == AsinRoot(z, fsqrt(z))
asinf(x) ==
    IF x.k = "nan" THEN NaN
    ELSE IF fge(fabs(x), f_1)
    THEN (IF feq(fabs(x), f_1) THEN Negate(x.s = 1, M_PI_2) ELSE NaN)
    ELSE IF flt(fabs(x), f_0_5)
    THEN (IF flt(fabs(x), Fin(0, Hidden, -35)) THEN x
          ELSE fadd(x, fmul(x, acos_R(fmul(x, x)))))
    ELSE Negate(x.s = 1, AsinHigh(fmul(fsub(f_1, fabs(x)), f_0_5)))

(***************************************************************************)
(* QtCore helpers the class uses: qFuzzyIsNull, qFuzzyCompare, qHypot,     *)
(* qDegreesToRadians, qRadiansToDegrees.                                   *)
(***************************************************************************)
fmin(a, b) == IF flt(b, a) THEN b ELSE a
qFuzzyIsNull(f) == fle(fabs(f), f_0_00001)
qFuzzyCompare(p1, p2) ==
    fle(fmul(fabs(fsub(p1, p2)), f_100000), fmin(fabs(p1), fabs(p2)))
qDegreesToRadians(degrees) == fmul(degrees, f_pi_180)
qRadiansToDegrees(radians) == fmul(radians, f_180_pi)

\* qHypot: the running [scale, total] with result scale * sqrt(total)
HypotFirst(first) == [scale |-> fabs(first), total |-> f_1]
HypotGrow(h, next, ratio) ==
    [scale |-> fabs(next),
     total |-> fadd(fmul(fmul(h.total, ratio), ratio), f_1)]
HypotKeep(h, ratio) ==
    [scale |-> h.scale, total |-> fadd(h.total, fmul(ratio, ratio))]
HypotAdd(h, next) ==
    IF isInf(h.scale) \/ (isNaN(h.scale) /\ ~isInf(next))
    THEN [scale |-> h.scale, total |-> f_1]
    ELSE IF isNaN(next) THEN [scale |-> next, total |-> f_1]
    ELSE IF ~fgt(h.scale, f_0) \/ isInf(next)
         THEN [scale |-> fabs(next), total |-> f_1]
    ELSE IF ~fgt(fabs(next), f_0) THEN h
    ELSE IF fgt(fabs(next), h.scale)
         THEN HypotGrow(h, next, fdiv(h.scale, next))
    ELSE HypotKeep(h, fdiv(next, h.scale))
HypotResult(h) ==
    IF isFinite(h.scale)
    THEN (IF fgt(h.scale, f_0) THEN fmul(h.scale, fsqrt(h.total)) ELSE f_0)
    ELSE h.scale
qHypot3(a, b, c) == HypotResult(HypotAdd(HypotAdd(HypotFirst(a), b), c))
qHypot4(a, b, c, d) ==
    HypotResult(HypotAdd(HypotAdd(HypotAdd(HypotFirst(a), b), c), d))

(***************************************************************************)
(* QQuaternion: the members wp, xp, yp, zp.                                *)
(***************************************************************************)
QQuaternion(scalar, xpos, ypos, zpos) ==
    [wp |-> scalar, xp |-> xpos, yp |-> ypos, zp |-> zpos]
QVector3D(xpos, ypos, zpos) == [x |-> xpos, y |-> ypos, z |-> zpos]
vector(q) == QVector3D(q.xp, q.yp, q.zp)

isNull(q) == isZero(q.wp) /\ isZero(q.xp) /\ isZero(q.yp) /\ isZero(q.zp)

\* the operators of qquaternion.h
operator_div(q, divisor) ==
    QQuaternion(fdiv(q.wp, divisor), fdiv(q.xp, divisor),
                fdiv(q.yp, divisor), fdiv(q.zp, divisor))
operator_scale(q, factor) ==
    QQuaternion(fmul(q.wp, factor), fmul(q.xp, factor),
                fmul(q.yp, factor), fmul(q.zp, factor))
operator_add(q1, q2) ==
    QQuaternion(fadd(q1.wp, q2.wp), fadd(q1.xp, q2.xp),
                fadd(q1.yp, q2.yp), fadd(q1.zp, q2.zp))
operator_neg(q) == QQuaternion(fneg(q.wp), fneg(q.xp), fneg(q.yp), fneg(q.zp))
dotProduct(q1, q2) ==
    fadd(fadd(fadd(fmul(q1.wp, q2.wp), fmul(q1.xp, q2.xp)),
              fmul(q1.yp, q2.yp)), fmul(q1.zp, q2.zp))
\* q1 * q2, the Hamilton product
operator_mul(q1, q2) ==
    QQuaternion(
        fsub(fsub(fsub(fmul(q1.wp, q2.wp), fmul(q1.xp, q2.xp)),
                  fmul(q1.yp, q2.yp)), fmul(q1.zp, q2.zp)),
        fsub(fadd(fadd(fmul(q1.wp, q2.xp), fmul(q1.xp, q2.wp)),
                  fmul(q1.yp, q2.zp)), fmul(q1.zp, q2.yp)),
        fadd(fadd(fsub(fmul(q1.wp, q2.yp), fmul(q1.xp, q2.zp)),
                  fmul(q1.yp, q2.wp)), fmul(q1.zp, q2.xp)),
        fadd(fsub(fadd(fmul(q1.wp, q2.zp), fmul(q1.xp, q2.yp)),
                  fmul(q1.yp, q2.xp)), fmul(q1.zp, q2.wp)))
conjugated(q) == QQuaternion(q.wp, fneg(q.xp), fneg(q.yp), fneg(q.zp))

length(q) == qHypot4(q.xp, q.yp, q.zp, q.wp)
\* A faulty lengthSquared(): the length itself, the square forgotten
lengthNotSquared(q) == qHypot4(q.xp, q.yp, q.zp, q.wp)
lengthSquared(q) ==
    fadd(fadd(fadd(fmul(q.xp, q.xp), fmul(q.yp, q.yp)), fmul(q.zp, q.zp)),
         fmul(q.wp, q.wp))

\* normalized() once scale = length() is known
normalizedBy(q, scale) ==
    IF qFuzzyCompare(scale, f_1) THEN q
    ELSE IF qFuzzyIsNull(scale) THEN QQuaternion(f_0, f_0, f_0, f_0)
    ELSE operator_div(q, scale)
normalized(q) == normalizedBy(q, length(q))

\* normalize() once len = length() is known: the members after the call
normalizeBy(q, len) ==
    IF qFuzzyCompare(len, f_1) \/ qFuzzyIsNull(len) THEN q
    ELSE [xp |-> fdiv(q.xp, len), yp |-> fdiv(q.yp, len),
          zp |-> fdiv(q.zp, len), wp |-> fdiv(q.wp, len)]
normalize(q) == normalizeBy(q, length(q))

\* inverted(): the conjugate divided by the squared length; null for null
inverted(q) ==
    IF isNull(q) THEN QQuaternion(f_0, f_0, f_0, f_0)
    ELSE operator_div(conjugated(q), lengthSquared(q))

\* A faulty rotatedVector(): multiplies by the inverse, which normalizes
rotatedVectorByInverse(q, v) ==
    vector(operator_mul(operator_mul(q, QQuaternion(f_0, v.x, v.y, v.z)),
                        inverted(q)))
rotatedVector(q, v) ==
    vector(operator_mul(operator_mul(q, QQuaternion(f_0, v.x, v.y, v.z)),
                        conjugated(q)))

\* fromAxisAndAngle(float x, float y, float z, float angle) once the axis is
\* rescaled and a = qDegreesToRadians(angle / 2.0f) is known
fromUnitAxis(x, y, z, s, c) ==
    normalized(QQuaternion(c, fmul(x, s), fmul(y, s), fmul(z, s)))
fromAxisRadians(x, y, z, a) == fromUnitAxis(x, y, z, sinf(a), cosf(a))
fromAxisLength(x, y, z, angle, len) ==
    IF ~qFuzzyCompare(len, f_1) /\ ~qFuzzyIsNull(len)
    THEN fromAxisRadians(fdiv(x, len), fdiv(y, len), fdiv(z, len),
                         qDegreesToRadians(fdiv(angle, f_2)))
    ELSE fromAxisRadians(x, y, z, qDegreesToRadians(fdiv(angle, f_2)))
fromAxisAndAngle(x, y, z, angle) ==
    fromAxisLength(x, y, z, angle, qHypot3(x, y, z))

\* A faulty getAxisAndAngle(): the angle not doubled
getAxisLengthHalfAngle(q, len) ==
    IF ~qFuzzyIsNull(len)
    THEN [x |-> IF qFuzzyCompare(len, f_1) THEN q.xp ELSE fdiv(q.xp, len),
          y |-> IF qFuzzyCompare(len, f_1) THEN q.yp ELSE fdiv(q.yp, len),
          z |-> IF qFuzzyCompare(len, f_1) THEN q.zp ELSE fdiv(q.zp, len),
          angle |-> qRadiansToDegrees(acosf(q.wp))]
    ELSE [x |-> f_0, y |-> f_0, z |-> f_0, angle |-> f_0]
\* getAxisAndAngle(float *x, float *y, float *z, float *angle): the values
\* written through the four pointers, once length = qHypot(xp, yp, zp) is known
getAxisLength(q, len) ==
    IF ~qFuzzyIsNull(len)
    THEN [x |-> IF qFuzzyCompare(len, f_1) THEN q.xp ELSE fdiv(q.xp, len),
          y |-> IF qFuzzyCompare(len, f_1) THEN q.yp ELSE fdiv(q.yp, len),
          z |-> IF qFuzzyCompare(len, f_1) THEN q.zp ELSE fdiv(q.zp, len),
          angle |-> qRadiansToDegrees(fmul(f_2, acosf(q.wp)))]
    ELSE [x |-> f_0, y |-> f_0, z |-> f_0, angle |-> f_0]
getAxisAndAngle(q) == getAxisLength(q, qHypot3(q.xp, q.yp, q.zp))

\* getEulerAngles(float *pitch, float *yaw, float *roll): the components
\* rescaled by len = length() unless that is fuzzily zero
eulerScaled(q, len) == IF ~qFuzzyIsNull(len) THEN operator_div(q, len) ELSE q
\* sinp = -2.0f * (yz - xw) of the rescaled components
sinPitch(qs) ==
    fmul(fneg(f_2), fsub(fmul(qs.yp, qs.zp), fmul(qs.xp, qs.wp)))
\* the else branch of std::abs(sinp) < 1.0f - epsilon
gimbalLock(sinp) == ~flt(fabs(sinp), fsub(f_1, f_0_00001))
\* pitch, yaw and roll in radians, outside gimbal lock and in it
eulerCommon(qs, sinp) ==
    [pitch |-> asinf(sinp),
     yaw |-> atan2f(fmul(f_2, fadd(fmul(qs.xp, qs.zp), fmul(qs.yp, qs.wp))),
                    fsub(f_1, fmul(f_2, fadd(fmul(qs.xp, qs.xp),
                                             fmul(qs.yp, qs.yp))))),
     roll |-> atan2f(fmul(f_2, fadd(fmul(qs.xp, qs.yp), fmul(qs.zp, qs.wp))),
                     fsub(f_1, fmul(f_2, fadd(fmul(qs.xp, qs.xp),
                                              fmul(qs.zp, qs.zp)))))]
\* A faulty gimbal-lock branch: the yaw taken from x instead of y
eulerLockedByX(qs, sinp) ==
    [pitch |-> Negate(sinp.s = 1, M_PI_2),
     yaw |-> fmul(f_2, atan2f(qs.xp, qs.wp)),
     roll |-> f_0]
eulerLocked(qs, sinp) ==
    [pitch |-> Negate(sinp.s = 1, M_PI_2),
     yaw |-> fmul(f_2, atan2f(qs.yp, qs.wp)),
     roll |-> f_0]
eulerDegrees(r) ==
    [pitch |-> qRadiansToDegrees(r.pitch), yaw |-> qRadiansToDegrees(r.yaw),
     roll |-> qRadiansToDegrees(r.roll)]
eulerRadians(qs, sinp) ==
    IF gimbalLock(sinp) THEN eulerLocked(qs, sinp) ELSE eulerCommon(qs, sinp)
eulerOfScaled(qs) == eulerDegrees(eulerRadians(qs, sinPitch(qs)))
getEulerAngles(q) == eulerOfScaled(eulerScaled(q, length(q)))

\* fromEulerAngles(float pitch, float yaw, float roll), from the sines and
\* cosines of the half angles on
fromEulerProducts(c1, s1, c2, s2, c3, s3, c1c2, s1s2) ==
    QQuaternion(fadd(fmul(c1c2, c3), fmul(s1s2, s3)),
                fadd(fmul(c1c2, s3), fmul(s1s2, c3)),
                fsub(fmul(fmul(s1, c2), c3), fmul(fmul(c1, s2), s3)),
                fsub(fmul(fmul(c1, s2), c3), fmul(fmul(s1, c2), s3)))
fromHalfAngles(c1, s1, c2, s2, c3, s3) ==
    fromEulerProducts(c1, s1, c2, s2, c3, s3, fmul(c1, c2), fmul(s1, s2))
fromEulerRadians(pitch, yaw, roll) ==
    fromHalfAngles(cosf(yaw), sinf(yaw), cosf(roll), sinf(roll),
                   cosf(pitch), sinf(pitch))
fromEulerAngles(pitch, yaw, roll) ==
    fromEulerRadians(fmul(qDegreesToRadians(pitch), f_0_5),
                     fmul(qDegreesToRadians(yaw), f_0_5),
                     fmul(qDegreesToRadians(roll), f_0_5))

\* QMatrix3x3 as rot3x3[row][column], rows and columns 0..2
rotationRows(f2xw, f2yw, f2zw, f2xx, f2xy, f2xz, f2yy, f2yz, f2zz) ==
    [i \in 0..2 |->
       IF i = 0
       THEN [j \in 0..2 |-> IF j = 0 THEN fsub(f_1, fadd(f2yy, f2zz))
                            ELSE IF j = 1 THEN fsub(f2xy, f2zw)
                            ELSE fadd(f2xz, f2yw)]
       ELSE IF i = 1
       THEN [j \in 0..2 |-> IF j = 0 THEN fadd(f2xy, f2zw)
                            ELSE IF j = 1 THEN fsub(f_1, fadd(f2xx, f2zz))
                            ELSE fsub(f2yz, f2xw)]
       ELSE [j \in 0..2 |-> IF j = 0 THEN fsub(f2xz, f2yw)
                            ELSE IF j = 1 THEN fadd(f2yz, f2xw)
                            ELSE fsub(f_1, fadd(f2xx, f2yy))]]
rotationTwice(q, f2x, f2y, f2z) ==
    rotationRows(fmul(f2x, q.wp), fmul(f2y, q.wp), fmul(f2z, q.wp),
                 fmul(f2x, q.xp), fmul(f2x, q.yp), fmul(f2x, q.zp),
                 fmul(f2y, q.yp), fmul(f2y, q.zp), fmul(f2z, q.zp))
toRotationMatrix(q) ==
    rotationTwice(q, fadd(q.xp, q.xp), fadd(q.yp, q.yp), fadd(q.zp, q.zp))

s_next == [n \in 0..2 |-> (n + 1) % 3]
\* A faulty selection: on a tie between entries 0 and 1 the index is 1
DominantIndexOnTie(rot3x3) ==
    IF fge(rot3x3[1][1], rot3x3[0][0])
    THEN (IF fgt(rot3x3[2][2], rot3x3[1][1]) THEN 2 ELSE 1)
    ELSE (IF fgt(rot3x3[2][2], rot3x3[0][0]) THEN 2 ELSE 0)
\* The index i fromRotationMatrix picks when the trace is not positive
DominantIndex(rot3x3) ==
    IF fgt(rot3x3[1][1], rot3x3[0][0])
    THEN (IF fgt(rot3x3[2][2], rot3x3[1][1]) THEN 2 ELSE 1)
    ELSE (IF fgt(rot3x3[2][2], rot3x3[0][0]) THEN 2 ELSE 0)
trace(rot3x3) == fadd(fadd(rot3x3[0][0], rot3x3[1][1]), rot3x3[2][2])
\* A faulty positive-trace branch: rows and columns exchanged
fromPositiveTraceTransposed(rot3x3, s) ==
    QQuaternion(fmul(f_0_25, s),
                fdiv(fsub(rot3x3[1][2], rot3x3[2][1]), s),
                fdiv(fsub(rot3x3[2][0], rot3x3[0][2]), s),
                fdiv(fsub(rot3x3[0][1], rot3x3[1][0]), s))
\* the branch trace > 0.00000001f, s = 2.0f * std::sqrt(trace + 1.0f)
fromPositiveTrace(rot3x3, s) ==
    QQuaternion(fmul(f_0_25, s),
                fdiv(fsub(rot3x3[2][1], rot3x3[1][2]), s),
                fdiv(fsub(rot3x3[0][2], rot3x3[2][0]), s),
                fdiv(fsub(rot3x3[1][0], rot3x3[0][1]), s))
\* the other branch: axis[i], axis[j], axis[k] and the scalar
fromDominant(rot3x3, i, j, k, s) ==
    QQuaternion(fdiv(fsub(rot3x3[k][j], rot3x3[j][k]), s),
                IF i = 0 THEN fmul(f_0_25, s)
                ELSE IF j = 0 THEN fdiv(fadd(rot3x3[j][i], rot3x3[i][j]), s)
                ELSE fdiv(fadd(rot3x3[k][i], rot3x3[i][k]), s),
                IF i = 1 THEN fmul(f_0_25, s)
                ELSE IF j = 1 THEN fdiv(fadd(rot3x3[j][i], rot3x3[i][j]), s)
                ELSE fdiv(fadd(rot3x3[k][i], rot3x3[i][k]), s),
                IF i = 2 THEN fmul(f_0_25, s)
                ELSE IF j = 2 THEN fdiv(fadd(rot3x3[j][i], rot3x3[i][j]), s)
                ELSE fdiv(fadd(rot3x3[k][i], rot3x3[i][k]), s))
\* A faulty divisor: the entries j and k added instead of subtracted
fromDominantIndexSum(rot3x3, i, j, k) ==
    fromDominant(rot3x3, i, j, k,
                 fmul(f_2, fsqrt(fadd(fadd(fadd(rot3x3[i][i], rot3x3[j][j]),
                                           rot3x3[k][k]), f_1))))
fromDominantIndex(rot3x3, i, j, k) ==
    fromDominant(rot3x3, i, j, k,
                 fmul(f_2, fsqrt(fadd(fsub(fsub(rot3x3[i][i], rot3x3[j][j]),
                                           rot3x3[k][k]), f_1))))
fromTrace(rot3x3, tr) ==
    IF fgt(tr, f_0_00000001)
    THEN fromPositiveTrace(rot3x3, fmul(f_2, fsqrt(fadd(tr, f_1))))
    ELSE fromDominantIndex(rot3x3, DominantIndex(rot3x3),
                           s_next[DominantIndex(rot3x3)],
                           s_next[s_next[DominantIndex(rot3x3)]])
fromRotationMatrix(rot3x3) == fromTrace(rot3x3, trace(rot3x3))

\* fromRotationMatrix as the assignments it makes to its locals, in the order
\* of the code: float scalar; float axis[3]; both start uninitialized
uninitialized == [k |-> "uninitialized", s |-> 0, m |-> 0, e |-> 0]
Store(target, index, value) ==
    [target |-> target, index |-> index, value |-> value]
positiveTraceStores(rot3x3, s) ==
    <<Store("scalar", 0, fmul(f_0_25, s)),
      Store("axis", 0, fdiv(fsub(rot3x3[2][1], rot3x3[1][2]), s)),
      Store("axis", 1, fdiv(fsub(rot3x3[0][2], rot3x3[2][0]), s)),
      Store("axis", 2, fdiv(fsub(rot3x3[1][0], rot3x3[0][1]), s))>>
dominantStores(rot3x3, i, j, k, s) ==
    <<Store("axis", i, fmul(f_0_25, s)),
      Store("scalar", 0, fdiv(fsub(rot3x3[k][j], rot3x3[j][k]), s)),
      Store("axis", j, fdiv(fadd(rot3x3[j][i], rot3x3[i][j]), s)),
      Store("axis", k, fdiv(fadd(rot3x3[k][i], rot3x3[i][k]), s))>>
dominantIndexStores(rot3x3, i, j, k) ==
    dominantStores(rot3x3, i, j, k,
                   fmul(f_2, fsqrt(fadd(fsub(fsub(rot3x3[i][i], rot3x3[j][j]),
                                             rot3x3[k][k]), f_1))))
stores(rot3x3) ==
    IF fgt(trace(rot3x3), f_0_00000001)
    THEN positiveTraceStores(rot3x3,
                             fmul(f_2, fsqrt(fadd(trace(rot3x3), f_1))))
    ELSE dominantIndexStores(rot3x3, DominantIndex(rot3x3),
                             s_next[DominantIndex(rot3x3)],
                             s_next[s_next[DominantIndex(rot3x3)]])
\* the value a local holds after the stores: the last one stored to it
RECURSIVE Stored(_, _, _)
Stored(seq, target, index) ==
    IF seq = << >> THEN uninitialized
    ELSE IF seq[Len(seq)].target = target /\ seq[Len(seq)].index = index
    THEN seq[Len(seq)].value
    ELSE Stored(SubSeq(seq, 1, Len(seq) - 1), target, index)

\* QVector3D of qvectornd.h, every operation in float
QVector3D_length(v) == qHypot3(v.x, v.y, v.z)
QVector3D_lengthSquared(v) ==
    fadd(fadd(fmul(v.x, v.x), fmul(v.y, v.y)), fmul(v.z, v.z))
QVector3D_div(v, divisor) ==
    QVector3D(fdiv(v.x, divisor), fdiv(v.y, divisor), fdiv(v.z, divisor))
QVector3D_normalizedBy(v, len) ==
    IF qFuzzyIsNull(fsub(len, f_1)) THEN v
    ELSE IF qFuzzyIsNull(len) THEN QVector3D(f_0, f_0, f_0)
    ELSE QVector3D_div(v, len)
QVector3D_normalized(v) == QVector3D_normalizedBy(v, QVector3D_length(v))
QVector3D_normalizeBy(v, len) ==
    IF qFuzzyIsNull(fsub(len, f_1)) \/ qFuzzyIsNull(len) THEN v
    ELSE QVector3D_div(v, len)
QVector3D_normalize(v) == QVector3D_normalizeBy(v, QVector3D_length(v))
QVector3D_dotProduct(v1, v2) ==
    fadd(fadd(fmul(v1.x, v2.x), fmul(v1.y, v2.y)), fmul(v1.z, v2.z))
crossProduct(v1, v2) ==
    QVector3D(fsub(fmul(v1.y, v2.z), fmul(v1.z, v2.y)),
              fsub(fmul(v1.z, v2.x), fmul(v1.x, v2.z)),
              fsub(fmul(v1.x, v2.y), fmul(v1.y, v2.x)))
\* QQuaternion(float scalar, const QVector3D &vector)
QQuaternionOf(scalar, v) == QQuaternion(scalar, v.x, v.y, v.z)

\* getAxes(QVector3D *xAxis, QVector3D *yAxis, QVector3D *zAxis): the columns
getAxesOf(rot3x3) ==
    [xAxis |-> QVector3D(rot3x3[0][0], rot3x3[1][0], rot3x3[2][0]),
     yAxis |-> QVector3D(rot3x3[0][1], rot3x3[1][1], rot3x3[2][1]),
     zAxis |-> QVector3D(rot3x3[0][2], rot3x3[1][2], rot3x3[2][2])]
getAxes(q) == getAxesOf(toRotationMatrix(q))

\* A faulty fromAxes(): the axes stored as rows
axesAsRows(xAxis, yAxis, zAxis) ==
    [i \in 0..2 |->
       IF i = 0 THEN [j \in 0..2 |-> IF j = 0 THEN xAxis.x
                                     ELSE IF j = 1 THEN xAxis.y ELSE xAxis.z]
       ELSE IF i = 1 THEN [j \in 0..2 |-> IF j = 0 THEN yAxis.x
                                          ELSE IF j = 1 THEN yAxis.y ELSE yAxis.z]
       ELSE [j \in 0..2 |-> IF j = 0 THEN zAxis.x
                            ELSE IF j = 1 THEN zAxis.y ELSE zAxis.z]]
\* fromAxes(xAxis, yAxis, zAxis): the matrix handed to fromRotationMatrix
axesAsColumns(xAxis, yAxis, zAxis) ==
    [i \in 0..2 |->
       IF i = 0 THEN [j \in 0..2 |-> IF j = 0 THEN xAxis.x
                                     ELSE IF j = 1 THEN yAxis.x ELSE zAxis.x]
       ELSE IF i = 1 THEN [j \in 0..2 |-> IF j = 0 THEN xAxis.y
                                          ELSE IF j = 1 THEN yAxis.y ELSE zAxis.y]
       ELSE [j \in 0..2 |-> IF j = 0 THEN xAxis.z
                            ELSE IF j = 1 THEN yAxis.z ELSE zAxis.z]]
fromAxes(xAxis, yAxis, zAxis) ==
    fromRotationMatrix(axesAsColumns(xAxis, yAxis, zAxis))

\* rotationTo(from, to) for antiparallel directions: axis is cross(X, v0)
rotationToHalfTurn(axis) == QQuaternionOf(f_0, QVector3D_normalize(axis))
\* A faulty choice of the axis: no fallback to the Y axis
rotationToOppositeByX(v0, axis) == rotationToHalfTurn(axis)
rotationToOpposite(v0, axis) ==
    rotationToHalfTurn(IF qFuzzyIsNull(QVector3D_lengthSquared(axis))
                       THEN crossProduct(QVector3D(f_0, f_1, f_0), v0)
                       ELSE axis)
\* the other directions, d = std::sqrt(2.0f * d)
rotationToArc(v0, v1, d) ==
    normalized(QQuaternionOf(fmul(d, f_0_5),
                             QVector3D_div(crossProduct(v0, v1), d)))
rotationToBy(v0, v1, d) ==
    IF qFuzzyIsNull(d)
    THEN rotationToOpposite(v0, crossProduct(QVector3D(f_1, f_0, f_0), v0))
    ELSE rotationToArc(v0, v1, fsqrt(fmul(f_2, d)))
rotationToUnit(v0, v1) ==
    rotationToBy(v0, v1, fadd(QVector3D_dotProduct(v0, v1), f_1))
rotationTo(from, to) ==
    rotationToUnit(QVector3D_normalized(from), QVector3D_normalized(to))

\* fromDirection(direction, up) once zAxis = direction.normalized() and
\* xAxis = crossProduct(up, zAxis) are known
fromDirectionFrame(zAxis, xAxis) ==
    fromAxes(xAxis, crossProduct(zAxis, xAxis), zAxis)
fromDirectionAxes(zAxis, xAxis) ==
    IF qFuzzyIsNull(QVector3D_lengthSquared(xAxis))
    THEN rotationTo(QVector3D(f_0, f_0, f_1), zAxis)
    ELSE fromDirectionFrame(zAxis, QVector3D_normalize(xAxis))
fromDirectionUnit(up, zAxis) ==
    fromDirectionAxes(zAxis, crossProduct(up, zAxis))
fromDirection(direction, up) ==
    IF /\ qFuzzyIsNull(direction.x)
       /\ qFuzzyIsNull(direction.y)
       /\ qFuzzyIsNull(direction.z)
    THEN QQuaternion(f_1, f_0, f_0, f_0)
    ELSE fromDirectionUnit(up, QVector3D_normalized(direction))

\* The scale factors slerp applies to q1 and to q2 (or -q2) for 0 < t < 1
slerpSpherical(t, angle, sinOfAngle) ==
    IF fgt(sinOfAngle, f_below_1em7)
    THEN <<fdiv(sinf(fmul(fsub(f_1, t), angle)), sinOfAngle),
           fdiv(sinf(fmul(t, angle)), sinOfAngle)>>
    ELSE <<fsub(f_1, t), t>>
slerpAngle(t, angle) == slerpSpherical(t, angle, sinf(angle))
slerpFactors(dot, t) ==
    IF fgt(fsub(f_1, dot), f_below_1em7) THEN slerpAngle(t, acosf(dot))
    ELSE <<fsub(f_1, t), t>>
\* A faulty blend: the first factor applied to both quaternions
slerpBlendFirstTwice(q1, q2b, f) ==
    operator_add(operator_scale(q1, f[1]), operator_scale(q2b, f[1]))
slerpBlend(q1, q2b, f) ==
    operator_add(operator_scale(q1, f[1]), operator_scale(q2b, f[2]))
slerpShortest(q1, q2, t, dot) ==
    slerpBlend(q1, IF flt(dot, f_0) THEN operator_neg(q2) ELSE q2,
               slerpFactors(IF flt(dot, f_0) THEN fneg(dot) ELSE dot, t))
\* A faulty slerp(): the ends t = 0 and t = 1 are interpolated, not clamped
slerpOpenEnds(q1, q2, t) ==
    IF flt(t, f_0) THEN q1
    ELSE IF fgt(t, f_1) THEN q2
    ELSE slerpShortest(q1, q2, t, dotProduct(q1, q2))
slerp(q1, q2, t) ==
    IF fle(t, f_0) THEN q1
    ELSE IF fge(t, f_1) THEN q2
    ELSE slerpShortest(q1, q2, t, dotProduct(q1, q2))

\* A faulty nlerp(): the blend returned without normalized()
nlerpUnnormalized(q1, q2b, t) ==
    operator_add(operator_scale(q1, fsub(f_1, t)), operator_scale(q2b, t))
nlerpShortest(q1, q2b, t) ==
    normalized(operator_add(operator_scale(q1, fsub(f_1, t)),
                            operator_scale(q2b, t)))
nlerp(q1, q2, t) ==
    IF fle(t, f_0) THEN q1
    ELSE IF fge(t, f_1) THEN q2
    ELSE nlerpShortest(q1, IF flt(dotProduct(q1, q2), f_0)
                           THEN operator_neg(q2) ELSE q2, t)

\* ---------------------------------------------------------------------
\* The state machine: one QQuaternion object and the calls made on it.
\*   q     the object (*this)
\*   pc    where the caller stands
\*   calls the calls made so far, each with the object and arguments it saw
\*   ret   what the last call returned ("void" when nothing)
\* ---------------------------------------------------------------------
(***************************************************************************)
(* QDataStream, as far as the stream operators of the class use it: a      *)
(* float is written as a double and read back as a float.  A double is a   *)
(* record [k, s, hi, lo, e] of magnitude (hi * 2^29 + lo) * 2^e, hi being  *)
(* the upper 24 and lo the lower 29 bits of its significand.               *)
(***************************************************************************)
LowBits == 29
\* double(f)
Widen(f) ==
    IF f.k # "fin" \/ f.m = 0
    THEN [k |-> f.k, s |-> f.s, hi |-> 0, lo |-> 0, e |-> 0]
    ELSE [k |-> "fin", s |-> f.s, hi |-> Normal(f)[1], lo |-> 0,
          e |-> Normal(f)[2] - LowBits]
\* float(d), rounded to nearest
Narrow(d) ==
    IF d.k = "nan" THEN NaN
    ELSE IF d.k = "inf" THEN Inf(d.s)
    ELSE RoundPack(d.s,
                   2 * d.hi + (IF d.lo >= Pow2(LowBits - 1) THEN 1 ELSE 0),
                   d.e + LowBits - 1,
                   d.lo % Pow2(LowBits - 1) # 0)

\* QDataStream &operator>>(float &f) on the n-th value from the read position
ReadFloat(st, n) == IF Len(st.data) >= n THEN Narrow(st.data[n]) ELSE f_0
\* the stream after count values were asked for
AfterRead(st, count) ==
    IF Len(st.data) >= count
    THEN [data |-> SubSeq(st.data, count + 1, Len(st.data)),
          status |-> st.status]
    ELSE [data |-> << >>, status |-> "ReadPastEnd"]

\* A faulty operator<<: x written before the scalar
streamedXFirst(quaternion) ==
    <<Widen(quaternion.xp), Widen(quaternion.wp),
      Widen(quaternion.yp), Widen(quaternion.zp)>>
\* operator<<(QDataStream &stream, const QQuaternion &quaternion): the values
\* appended to the stream
streamed(quaternion) ==
    <<Widen(quaternion.wp), Widen(quaternion.xp),
      Widen(quaternion.yp), Widen(quaternion.zp)>>
\* operator>>(QDataStream &stream, QQuaternion &quaternion): the quaternion
\* after setScalar(scalar), setX(x), setY(y), setZ(z)
unstreamed(st) ==
    [wp |-> ReadFloat(st, 1), xp |-> ReadFloat(st, 2),
     yp |-> ReadFloat(st, 3), zp |-> ReadFloat(st, 4)]

(***************************************************************************)
(* QMessageAuthenticationCode as tst_qmessageauthenticationcode.cpp uses   *)
(* it.  The code is the keyed hash of RFC 2104 over an incremental hash;   *)
(* in place of MD5 and the SHA family stands a small hash that, like them, *)
(* absorbs its input byte by byte into a running state.  A QByteArray is a *)
(* sequence of bytes 0..255.                                               *)
(***************************************************************************)
Algorithms == {"Md5", "Sha1", "Sha256", "Sha384", "Sha512"}
HashModulus == 65521
\* the block size of the hash, in bytes, shortened
BlockSize(method) == IF method \in {"Sha384", "Sha512"} THEN 3 ELSE 2
HashSeed(method) ==
    IF method = "Md5" THEN 1
    ELSE IF method = "Sha1" THEN 2
    ELSE IF method = "Sha256" THEN 3
    ELSE IF method = "Sha384" THEN 4 ELSE 5
RECURSIVE Xor(_, _)
Xor(a, b) ==
    IF a = 0 THEN b
    ELSE IF b = 0 THEN a
    ELSE ((a + b) % 2) + 2 * Xor(a \div 2, b \div 2)
\* QCryptographicHash::addData(data) on the running state h
RECURSIVE HashAdd(_, _)
HashAdd(h, data) ==
    IF data = << >> THEN h
    ELSE HashAdd((h * 31 + Head(data) + 7) % HashModulus, Tail(data))
\* QCryptographicHash::result(): the digest, two bytes
HashResult(h) == <<h \div 256, h % 256>>
\* QCryptographicHash::hash(data, method)
HashOf(data, method) == HashResult(HashAdd(HashSeed(method), data))

\* the key of the construction: hashed when longer than a block, then padded
\* with zero bytes to the block size
PaddedKey(key, method) ==
    [i \in 1..BlockSize(method) |-> IF i <= Len(key) THEN key[i] ELSE 0]
BlockKey(key, method) ==
    PaddedKey(IF Len(key) > BlockSize(method) THEN HashOf(key, method) ELSE key,
              method)
XorPad(block, pad) == [i \in 1..Len(block) |-> Xor(block[i], pad)]
\* the message hash once the key is set: the inner padding absorbed
initMessageHash(method, key) ==
    HashAdd(HashSeed(method), XorPad(BlockKey(key, method), 54))

\* no object constructed yet
NoMac == [method |-> "none", key |-> << >>, messageHash |-> 0]
\* QMessageAuthenticationCode mac(method)
QMessageAuthenticationCode(method) ==
    [method |-> method, key |-> << >>,
     messageHash |-> initMessageHash(method, << >>)]
\* mac.setKey(key): the key replaced and the message hash started again
setKey(m, key) ==
    [method |-> m.method, key |-> key,
     messageHash |-> initMessageHash(m.method, key)]
\* A faulty addData: the data added before are forgotten
addDataAfresh(m, data) ==
    [m EXCEPT !.messageHash = HashAdd(initMessageHash(m.method, m.key), data)]
\* mac.addData(data) and mac.addData(data, length)
addData(m, data) == [m EXCEPT !.messageHash = HashAdd(@, data)]
\* mac.addData(device): the device read block by block from position pos on
DeviceBlock == 2
RECURSIVE addDevice(_, _, _)
addDevice(m, data, pos) ==
    IF pos >= Len(data) THEN m
    ELSE addDevice(addData(m, SubSeq(data, pos + 1,
                                     IF pos + DeviceBlock < Len(data)
                                     THEN pos + DeviceBlock ELSE Len(data))),
                   data, pos + DeviceBlock)
\* mac.result(): the outer hash over the outer padding and the inner digest
result(m) ==
    HashOf(XorPad(BlockKey(m.key, m.method), 92) \o HashResult(m.messageHash),
           m.method)
\* QMessageAuthenticationCode::hash(message, key, method)
hash(message, key, method) ==
    result(addData(setKey(QMessageAuthenticationCode(method), key), message))

\* QByteArray::mid(pos, len) and mid(pos)
mid(bytes, pos, len) ==
    SubSeq(bytes, pos + 1,
           IF pos + len < Len(bytes) THEN pos + len ELSE Len(bytes))
\* result_incremental(): index = message.length() / 2
leftPart(message) == mid(message, 0, Len(message) \div 2)
rightPart(message) == mid(message, Len(message) \div 2, Len(message))

\* ---------------------------------------------------------------------
\* Window (tests/manual/rhi/multiwindow_threaded): the two flags, and the
\* events handled so far with the signals each one emitted.
\* ---------------------------------------------------------------------
NoWindowEvents ==
    [constructed |-> FALSE, m_running |-> FALSE, m_notExposed |-> FALSE,
     events |-> << >>]
\* Window::Window(title, api) leaves both flags to the member initializers of
\* window.h: m_running false (the first usable expose initializes), and
\* m_notExposed as the header has it
Window(notExposed) ==
    [constructed |-> TRUE, m_running |-> FALSE, m_notExposed |-> notExposed,
     events |-> << >>]
\* one handled event: its type, isExposed() or "the surface is about to be
\* destroyed", m_running when it arrived, and the signals emitted
Handled(w, type, flag, emitted) ==
    [w EXCEPT !.events = Append(w.events,
        [type |-> type, flag |-> flag, running |-> w.m_running,
         emitted |-> emitted])]
\* A faulty exposeEvent(): a window marked not exposed only resyncs its size
exposeEventResync(w, isExposed) ==
    IF isExposed
    THEN IF ~w.m_running
         THEN [Handled(w, "Expose", isExposed,
                       <<"initRequested", "renderRequested(true)">>)
                 EXCEPT !.m_running = TRUE, !.m_notExposed = FALSE]
         ELSE [Handled(w, "Expose", isExposed, <<"syncSurfaceSizeRequested">>)
                 EXCEPT !.m_notExposed = FALSE]
    ELSE IF w.m_running
         THEN [Handled(w, "Expose", isExposed, << >>)
                 EXCEPT !.m_notExposed = TRUE]
         ELSE Handled(w, "Expose", isExposed, << >>)
exposeEvent(w, isExposed) ==
    IF isExposed
    THEN IF ~w.m_running
         THEN [Handled(w, "Expose", isExposed,
                       <<"initRequested", "renderRequested(true)">>)
                 EXCEPT !.m_running = TRUE, !.m_notExposed = FALSE]
         ELSE IF w.m_notExposed
              THEN [Handled(w, "Expose", isExposed, <<"renderRequested(true)">>)
                      EXCEPT !.m_notExposed = FALSE]
              ELSE Handled(w, "Expose", isExposed,
                           <<"syncSurfaceSizeRequested">>)
    ELSE IF w.m_running
         THEN [Handled(w, "Expose", isExposed, << >>)
                 EXCEPT !.m_notExposed = TRUE]
         ELSE Handled(w, "Expose", isExposed, << >>)
\* A faulty event(): an update request renders whatever m_notExposed says
updateRequestAlways(w) ==
    Handled(w, "UpdateRequest", FALSE, <<"renderRequested(false)">>)
\* event(e), case QEvent::UpdateRequest
updateRequest(w) ==
    IF ~w.m_notExposed
    THEN Handled(w, "UpdateRequest", FALSE, <<"renderRequested(false)">>)
    ELSE Handled(w, "UpdateRequest", FALSE, << >>)
\* event(e), case QEvent::PlatformSurface
platformSurface(w, aboutToBeDestroyed) ==
    IF aboutToBeDestroyed
    THEN Handled(w, "PlatformSurface", aboutToBeDestroyed,
                 <<"surfaceGoingAway">>)
    ELSE Handled(w, "PlatformSurface", aboutToBeDestroyed, << >>)

\* ---------------------------------------------------------------------
\* QWasmLocalFileAccess: the change-event callbacks registered, and the file
\* dialogs opened so far, each with the calls made on its caller's callbacks.
\* ---------------------------------------------------------------------
NoDialogs == [changeEvent |-> {}, dialogs |-> << >>]
\* one callback call: fileDialogClosed(arg) of openFiles,
\* fileDialogClosed(flag) of openFile, acceptFile and fileDataReady of file arg
Logged(w, cb, d, arg, flag) ==
    [w EXCEPT !.dialogs[d].log = Append(w.dialogs[d].log,
        [cb |-> cb, arg |-> arg, flag |-> flag])]
\* if (fileIndex >= fileList.length()) { readFile.reset(); return; }
readFileDone(w, d, fileIndex) ==
    [w EXCEPT !.dialogs[d].fileIndex = fileIndex,
              !.dialogs[d].readFile = FALSE]
\* file.stream(buffer, [=]() { ... }): the read of file fileIndex is started
\* and its completion callback holds the next step
readFileStream(w, d, fileIndex) ==
    [w EXCEPT !.dialogs[d].fileIndex = fileIndex,
              !.dialogs[d].reading = w.dialogs[d].reading \cup {fileIndex}]
\* A faulty readFile: the next file is taken up while the read is in flight
RECURSIVE readFileEager(_, _, _)
readFileEager(w, d, fileIndex) ==
    IF fileIndex >= w.dialogs[d].files
    THEN readFileDone(w, d, fileIndex)
    ELSE IF ~w.dialogs[d].accepts[fileIndex + 1]
    THEN readFileEager(Logged(w, "acceptFile", d, fileIndex, FALSE),
                       d, fileIndex + 1)
    ELSE readFileEager(
             readFileStream(Logged(w, "acceptFile", d, fileIndex, TRUE),
                            d, fileIndex),
             d, fileIndex + 1)
\* (*readFile)(fileIndex); flag of an acceptFile call: a buffer was returned
RECURSIVE readFile(_, _, _)
readFile(w, d, fileIndex) ==
    IF fileIndex >= w.dialogs[d].files
    THEN readFileDone(w, d, fileIndex)
    ELSE IF ~w.dialogs[d].accepts[fileIndex + 1]
    THEN readFile(Logged(w, "acceptFile", d, fileIndex, FALSE),
                  d, fileIndex + 1)
    ELSE readFileStream(Logged(w, "acceptFile", d, fileIndex, TRUE),
                        d, fileIndex)
\* readFiles(fileList, acceptFile, fileDataReady); accepts are the answers
\* acceptFile gives for the files of the list
readFiles(w, d, accepts) ==
    readFile([w EXCEPT !.dialogs[d].files = Len(accepts),
                       !.dialogs[d].accepts = accepts,
                       !.dialogs[d].readFile = TRUE], d, 0)
\* the completion callback of file.stream: fileDataReady(), then the next file
\* A faulty callback: the next file is started without fileDataReady()
streamCompletedSilently(w, d, fileIndex) ==
    readFile([w EXCEPT !.dialogs[d].reading = w.dialogs[d].reading \ {fileIndex}],
             d, fileIndex + 1)
streamCompleted(w, d, fileIndex) ==
    readFile(Logged([w EXCEPT !.dialogs[d].reading =
                                  w.dialogs[d].reading \ {fileIndex}],
                    "fileDataReady", d, fileIndex, FALSE),
             d, fileIndex + 1)
\* A faulty registration: the earlier callback stays registered
openFileDialogKeeping(w, api) ==
    [w EXCEPT !.changeEvent = w.changeEvent \cup {Len(w.dialogs) + 1},
              !.dialogs = Append(w.dialogs,
                  [api |-> api, state |-> "open", files |-> 0,
                   accepts |-> << >>, fileIndex |-> 0, reading |-> {},
                   readFile |-> FALSE, log |-> << >>])]
\* openFileDialog(accept, fileSelectMode, filesSelected):
\* changeEvent.reset(new qstdweb::EventCallback(input, "change", callback))
openFileDialog(w, api) ==
    [w EXCEPT !.changeEvent = {Len(w.dialogs) + 1},
              !.dialogs = Append(w.dialogs,
                  [api |-> api, state |-> "open", files |-> 0,
                   accepts |-> << >>, fileIndex |-> 0, reading |-> {},
                   readFile |-> FALSE, log |-> << >>])]
\* A faulty openFiles callback: the files are read before the dialog is
\* reported closed
filesSelectedLate(w, d, accepts) ==
    Logged(readFiles([w EXCEPT !.dialogs[d].state = "selected"], d, accepts),
           IF w.dialogs[d].api = "openFile"
           THEN "fileDialogClosed(bool)" ELSE "fileDialogClosed",
           d,
           IF w.dialogs[d].api = "openFile" THEN 0 ELSE Len(accepts),
           Len(accepts) # 0)
\* the callback openFiles hands to openFileDialog; openFile wraps
\* fileDialogClosed into fileDialogClosedWithInt
filesSelected(w, d, accepts) ==
    readFiles(Logged([w EXCEPT !.dialogs[d].state = "selected"],
                     IF w.dialogs[d].api = "openFile"
                     THEN "fileDialogClosed(bool)" ELSE "fileDialogClosed",
                     d,
                     IF w.dialogs[d].api = "openFile" THEN 0 ELSE Len(accepts),
                     Len(accepts) # 0),
              d, accepts)

\* ---------------------------------------------------------------------
\* QRgbaFloat<F>: four components of type F (float or qfloat16), the call
\* that made the colour, and the last accessor called with what it returned.
\* A uint is held as its two 16-bit halves.
\* ---------------------------------------------------------------------
Types == {"float", "qfloat16"}
f_255 == IntToFloat(255)
\* uint and quint8 arithmetic
Uint(hi, lo) == [hi |-> hi, lo |-> lo]
ShiftRight(u, n) ==
    IF n >= 16 THEN Uint(0, u.hi \div Pow2(n - 16))
    ELSE Uint(u.hi \div Pow2(n),
              (u.hi % Pow2(n)) * Pow2(16 - n) + u.lo \div Pow2(n))
ShiftLeft(u, n) ==
    IF n >= 16 THEN Uint((u.lo * Pow2(n - 16)) % Pow2(16), 0)
    ELSE Uint((u.hi * Pow2(n) + (u.lo * Pow2(n)) \div Pow2(16)) % Pow2(16),
              (u.lo * Pow2(n)) % Pow2(16))
RECURSIVE BitOr(_, _)
BitOr(a, b) ==
    IF a = 0 THEN b ELSE IF b = 0 THEN a
    ELSE (IF a % 2 = 1 \/ b % 2 = 1 THEN 1 ELSE 0)
            + 2 * BitOr(a \div 2, b \div 2)
Or(u, v) == Uint(BitOr(u.hi, v.hi), BitOr(u.lo, v.lo))
quint8(u) == u.lo % 256
\* the bits a qfloat16 cannot hold of a float's significand
HalfDrop == 13
IsHalf(x) == x.k # "fin" \/ x.m % Pow2(HalfDrop) = 0
HalfBelow(x) == [x EXCEPT !.m = (x.m \div Pow2(HalfDrop)) * Pow2(HalfDrop)]
HalfAbove(x) ==
    RoundPack(x.s, (x.m \div Pow2(HalfDrop) + 1) * Pow2(HalfDrop), x.e, FALSE)
\* a float stored in a component of type F: itself, or for a qfloat16 that
\* cannot hold it one of the two neighbours (the conversion's rounding); the
\* values stored here lie in the normal range of a qfloat16
AsType(F, x) ==
    IF F = "float" \/ IsHalf(x) THEN {x} ELSE {HalfBelow(x), HalfAbove(x)}
QRgbaFloat(F, r, g, b, a, made, args) ==
    [F |-> F, r |-> r, g |-> g, b |-> b, a |-> a, made |-> made, args |-> args,
     fn |-> "none", ret |-> Uint(0, 0)]
NoColour == QRgbaFloat("none", f_0, f_0, f_0, f_0, "none", << >>)
\* red * (1.0f / 255.0f)
fromRgbaComponent(c) == fmul(IntToFloat(c), fdiv(f_1, f_255))
\* the colours fromRgba(red, green, blue, alpha) can return
fromRgba(F, red, green, blue, alpha, made, args) ==
    {QRgbaFloat(F, r, g, b, a, made, args) :
        r \in AsType(F, fromRgbaComponent(red)),
        g \in AsType(F, fromRgbaComponent(green)),
        b \in AsType(F, fromRgbaComponent(blue)),
        a \in AsType(F, fromRgbaComponent(alpha))}
\* A faulty fromArgb32(): red and blue taken from each other's bits
fromArgb32Bgr(F, rgb) ==
    fromRgba(F, quint8(rgb), quint8(ShiftRight(rgb, 8)),
             quint8(ShiftRight(rgb, 16)), quint8(ShiftRight(rgb, 24)),
             "fromArgb32", <<rgb.hi, rgb.lo>>)
fromArgb32(F, rgb) ==
    fromRgba(F, quint8(ShiftRight(rgb, 16)), quint8(ShiftRight(rgb, 8)),
             quint8(rgb), quint8(ShiftRight(rgb, 24)),
             "fromArgb32", <<rgb.hi, rgb.lo>>)
\* std::clamp(v, lo, hi)
clamp(v, lo, hi) == IF flt(v, lo) THEN lo ELSE IF flt(hi, v) THEN hi ELSE v
\* redNormalized(), greenNormalized(), blueNormalized(), alphaNormalized()
normalizedComponent(c) == clamp(c, f_0, f_1)
\* A faulty rounding: towards zero
lroundTowardsZero(x) ==
    IF x.m = 0 THEN 0
    ELSE IF x.e >= 0 THEN x.m * Pow2(x.e)
    ELSE IF -x.e > MantBits + 1 THEN 0
    ELSE x.m \div Pow2(-x.e)
\* std::lround of a finite float: to the nearest integer, halves away from 0
lroundMagnitude(x) ==
    IF x.m = 0 THEN 0
    ELSE IF x.e >= 0 THEN x.m * Pow2(x.e)
    ELSE IF -x.e > MantBits + 1 THEN 0
    ELSE (x.m + Pow2(-x.e - 1)) \div Pow2(-x.e)
lround(x) == IF x.s = 1 THEN -lroundMagnitude(x) ELSE lroundMagnitude(x)
\* quint8(std::lround(redNormalized() * 255.0f)): the values red8() can
\* return; std::lround of a NaN is unspecified
component8(c) ==
    IF isNaN(normalizedComponent(c)) THEN 0..255
    ELSE {lround(fmul(normalizedComponent(c), f_255)) % 256}
\* uint((alpha8() << 24) | (red8() << 16) | (green8() << 8) | blue8())
toArgb32Of(alpha8, red8, green8, blue8) ==
    Or(Or(Or(ShiftLeft(Uint(0, alpha8), 24), ShiftLeft(Uint(0, red8), 16)),
          ShiftLeft(Uint(0, green8), 8)),
       Uint(0, blue8))
toArgb32(c) ==
    {toArgb32Of(alpha8, red8, green8, blue8) :
        alpha8 \in component8(c.a), red8 \in component8(c.r),
        green8 \in component8(c.g), blue8 \in component8(c.b)}

VARIABLES q, pc, calls, ret, stream, mac, win, wasm, rgba

vars == <<q, pc, calls, ret, stream, mac, win, wasm, rgba>>

\* what the calls on a quaternion leave alone
elsewhere == <<stream, mac, win, wasm, rgba>>

MaxNum == 1

Nums == (-MaxNum)..MaxNum

Scales == {1, 0, -1, -20, -80}

AxisScales == {0, -20}

Grid(n, k) == ldexp(IntToFloat(n), k)

Vecs == {QVector3D(IntToFloat(a), IntToFloat(b), IntToFloat(c)) :
            a \in 0..MaxNum, b \in 0..MaxNum, c \in 0..MaxNum}

UnitOf(v) == vector(normalized(QQuaternion(f_0, v.x, v.y, v.z)))

GridAxes == {QVector3D(Grid(a, k), Grid(b, k), Grid(c, k)) :
                a \in Nums, b \in Nums, c \in Nums, k \in AxisScales}

Axes == GridAxes \cup {UnitOf(v) : v \in GridAxes}

f_30 == IntToFloat(30)
f_90 == IntToFloat(90)
f_120 == IntToFloat(120)
f_180 == IntToFloat(180)
f_tiny_angle == ldexp(f_1, -10)
f_small_angle == ldexp(f_1, -6)

Angles == {f_0, f_tiny_angle, f_small_angle, f_30, f_90, f_120, f_180,
           fneg(f_90), IntToFloat(270), IntToFloat(540)}

f_0_3 == Fin(0, 10066330, -25)

Ts == {fneg(f_1), f_0, f_0_25, f_0_3, f_0_5, f_1, f_2}

Partners(q1) == {q1, operator_neg(q1), conjugated(q1)}

Call(fn, self, args) == [fn |-> fn, self |-> self, args |-> args]

Last == calls[Len(calls)]

Usable == pc \in {"ready", "normal"}

Init ==
    /\ q = QQuaternion(f_1, f_0, f_0, f_0)
    /\ pc = "new"
    /\ calls = << >>
    /\ ret = "void"
    /\ stream = [data |-> << >>, status |-> "Ok"]
    /\ mac = NoMac
    /\ win = NoWindowEvents
    /\ wasm = NoDialogs
    /\ rgba = NoColour

Construct ==
    /\ pc = "new"
    /\ \E a \in Nums, b \in Nums, c \in Nums, d \in Nums, k \in Scales :
          /\ q' = QQuaternion(Grid(a, k), Grid(b, k), Grid(c, k), Grid(d, k))
          /\ calls' = Append(calls, Call("QQuaternion", q,
                                 <<Grid(a, k), Grid(b, k), Grid(c, k), Grid(d, k)>>))
    /\ pc' = "ready"
    /\ ret' = "void"
    /\ UNCHANGED elsewhere

FromAxisAndAngle ==
    /\ pc = "new"
    /\ \E axis \in Axes, angle \in Angles :
          /\ q' = fromAxisAndAngle(axis.x, axis.y, axis.z, angle)
          /\ calls' = Append(calls, Call("fromAxisAndAngle", q, <<axis, angle>>))
    /\ pc' = "built"
    /\ ret' = "void"
    /\ UNCHANGED elsewhere

Normalize ==
    /\ pc = "ready"
    /\ q' = normalize(q)
    /\ pc' = "normal"
    /\ calls' = Append(calls, Call("normalize", q, << >>))
    /\ ret' = "void"
    /\ UNCHANGED elsewhere

Normalized ==
    /\ Usable
    /\ ret' = normalized(q)
    /\ pc' = "done"
    /\ calls' = Append(calls, Call("normalized", q, << >>))
    /\ UNCHANGED q
    /\ UNCHANGED elsewhere

Inverted ==
    /\ Usable
    /\ ret' = inverted(q)
    /\ pc' = "inverted"
    /\ calls' = Append(calls, Call("inverted", q, << >>))
    /\ UNCHANGED q
    /\ UNCHANGED elsewhere

OperatorMul ==
    /\ pc = "inverted"
    /\ ret' = operator_mul(q, ret)
    /\ pc' = "done"
    /\ calls' = Append(calls, Call("operator*", q, <<ret>>))
    /\ UNCHANGED q
    /\ UNCHANGED elsewhere

RotatedVector ==
    /\ Usable
    /\ \E v \in Vecs :
          /\ ret' = rotatedVector(q, v)
          /\ calls' = Append(calls, Call("rotatedVector", q, <<v>>))
    /\ pc' = "done"
    /\ UNCHANGED q
    /\ UNCHANGED elsewhere

ToRotationMatrix ==
    /\ Usable
    /\ ret' = toRotationMatrix(q)
    /\ pc' = "matrix"
    /\ calls' = Append(calls, Call("toRotationMatrix", q, << >>))
    /\ UNCHANGED q
    /\ UNCHANGED elsewhere

FromRotationMatrix ==
    /\ pc = "matrix"
    /\ ret' = fromRotationMatrix(ret)
    /\ pc' = "done"
    /\ calls' = Append(calls, Call("fromRotationMatrix", q, <<ret>>))
    /\ UNCHANGED q
    /\ UNCHANGED elsewhere

Slerp ==
    /\ Usable
    /\ \E q2 \in Partners(q), t \in Ts :
          /\ ret' = slerp(q, q2, t)
          /\ calls' = Append(calls, Call("slerp", q, <<q, q2, t>>))
    /\ pc' = "done"
    /\ UNCHANGED q
    /\ UNCHANGED elsewhere

Nlerp ==
    /\ Usable
    /\ \E q2 \in Partners(q), t \in Ts :
          /\ ret' = nlerp(q, q2, t)
          /\ calls' = Append(calls, Call("nlerp", q, <<q, q2, t>>))
    /\ pc' = "done"
    /\ UNCHANGED q
    /\ UNCHANGED elsewhere

GetAxisAndAngle ==
    /\ Usable \/ pc = "built"
    /\ ret' = getAxisAndAngle(q)
    /\ pc' = "done"
    /\ calls' = Append(calls, Call("getAxisAndAngle", q, << >>))
    /\ UNCHANGED q
    /\ UNCHANGED elsewhere

EulerAngles == {f_0, f_30, f_90, fneg(f_90), f_180}

FromEulerAngles ==
    /\ pc = "new"
    /\ \E pitch \in EulerAngles, yaw \in EulerAngles, roll \in EulerAngles :
          /\ q' = fromEulerAngles(pitch, yaw, roll)
          /\ calls' = Append(calls, Call("fromEulerAngles", q,
                                         <<pitch, yaw, roll>>))
    /\ pc' = "built"
    /\ ret' = "void"
    /\ UNCHANGED elsewhere

GetEulerAngles ==
    /\ Usable \/ pc = "built"
    /\ ret' = getEulerAngles(q)
    /\ pc' = "done"
    /\ calls' = Append(calls, Call("getEulerAngles", q, << >>))
    /\ UNCHANGED q
    /\ UNCHANGED elsewhere

AxisX == QVector3D(f_1, f_0, f_0)
AxisY == QVector3D(f_0, f_1, f_0)
AxisZ == QVector3D(f_0, f_0, f_1)
ZeroVector == QVector3D(f_0, f_0, f_0)

\* directions next to the X axis and its opposite, one of fuzzily zero length
\* and one whose components are fuzzily zero while its length is not
Slanted ==
    {QVector3D(f_1, ldexp(f_1, -10), f_0),
     QVector3D(fneg(f_1), f_0, ldexp(f_1, -10)),
     QVector3D(fneg(f_1), ldexp(f_1, -2), f_0),
     QVector3D(ldexp(f_1, -20), f_0, f_0),
     QVector3D(ldexp(f_1, -17), ldexp(f_1, -17), ldexp(f_1, -17))}

Directions ==
    {QVector3D(IntToFloat(a), IntToFloat(b), IntToFloat(c)) :
        a \in Nums, b \in Nums, c \in Nums} \cup Slanted

\* the second direction of a call: the first one, its opposite, or a fixed one
Counterparts(v) ==
    {v, QVector3D(fsub(f_0, v.x), fsub(f_0, v.y), fsub(f_0, v.z)), ZeroVector,
     AxisX, AxisY, AxisZ} \cup Slanted

RotationTo ==
    /\ pc = "new"
    /\ \E from \in Directions :
       \E to \in Counterparts(from) :
          /\ q' = rotationTo(from, to)
          /\ calls' = Append(calls, Call("rotationTo", q, <<from, to>>))
    /\ pc' = "built"
    /\ ret' = "void"
    /\ UNCHANGED elsewhere

FromDirection ==
    /\ pc = "new"
    /\ \E direction \in Directions :
       \E up \in Counterparts(direction) :
          /\ q' = fromDirection(direction, up)
          /\ calls' = Append(calls, Call("fromDirection", q, <<direction, up>>))
    /\ pc' = "built"
    /\ ret' = "void"
    /\ UNCHANGED elsewhere

MaxWrites == 2

\* the quaternions written to the stream; the last component is the smallest
\* subnormal float
Streamable ==
    {QQuaternion(IntToFloat(a), Grid(b, -1), f_0_3, Fin(0, 1, EMin)) :
        a \in Nums, b \in {0, 1}}

Count(fn) == Cardinality({i \in 1..Len(calls) : calls[i].fn = fn})

StreamOut ==
    /\ Count("operator<<") < MaxWrites
    /\ \E quaternion \in Streamable :
          /\ stream' = [stream EXCEPT !.data = @ \o streamed(quaternion)]
          /\ calls' = Append(calls, Call("operator<<", q, <<quaternion>>))
    /\ UNCHANGED <<q, pc, ret, mac, win, wasm, rgba>>

StreamIn ==
    /\ Count("operator>>") < MaxWrites
    /\ q' = unstreamed(stream)
    /\ stream' = AfterRead(stream, 4)
    /\ calls' = Append(calls, Call("operator>>", q, <<unstreamed(stream)>>))
    /\ UNCHANGED <<pc, ret, mac, win, wasm, rgba>>

MaxLen == 2
MaxAdds == 2

\* bytes of the test's rows: 'k', 0xdd
Bytes == {107, 221}

ByteArrays(n) == UNION {[1..k -> Bytes] : k \in 0..n}

\* keys: empty, shorter than a block and longer than a block
Keys == {<< >>, <<107>>, <<170, 170, 170, 170>>}

Adds ==
    Count("addData(QByteArrayView)") + Count("addData(const char *, qsizetype)")
        + Count("addData(QIODevice *)")

MacConstruct ==
    /\ mac = NoMac
    /\ calls = << >>
    /\ \E method \in Algorithms :
          /\ mac' = QMessageAuthenticationCode(method)
          /\ calls' = Append(calls, Call("QMessageAuthenticationCode", mac,
                                         <<method>>))
    /\ ret' = "void"
    /\ UNCHANGED <<q, pc, stream, win, wasm, rgba>>

SetKey ==
    /\ mac # NoMac
    /\ Count("setKey") = 0
    /\ Count("result") = 0
    /\ \E key \in Keys :
          /\ mac' = setKey(mac, key)
          /\ calls' = Append(calls, Call("setKey", mac, <<key>>))
    /\ ret' = "void"
    /\ UNCHANGED <<q, pc, stream, win, wasm, rgba>>

AddData ==
    /\ mac # NoMac
    /\ Adds < MaxAdds
    /\ Count("result") = 0
    /\ \E data \in ByteArrays(MaxLen) :
          /\ mac' = addData(mac, data)
          /\ calls' = Append(calls, Call("addData(QByteArrayView)", mac,
                                         <<data>>))
    /\ ret' = "void"
    /\ UNCHANGED <<q, pc, stream, win, wasm, rgba>>

AddDataLength ==
    /\ mac # NoMac
    /\ Adds < MaxAdds
    /\ Count("result") = 0
    /\ \E data \in ByteArrays(MaxLen) :
       \E size \in {Len(data), Len(data) \div 2} :
          /\ mac' = addData(mac, mid(data, 0, size))
          /\ calls' = Append(calls, Call("addData(const char *, qsizetype)",
                                         mac, <<data, size>>))
    /\ ret' = "void"
    /\ UNCHANGED <<q, pc, stream, win, wasm, rgba>>

\* the device is a QBuffer over data, open for reading or not open
AddDataDevice ==
    /\ mac # NoMac
    /\ Adds < MaxAdds
    /\ Count("result") = 0
    /\ \E data \in [1..(MaxLen + 1) -> Bytes], open \in BOOLEAN :
          /\ mac' = IF open THEN addDevice(mac, data, 0) ELSE mac
          /\ ret' = open
          /\ calls' = Append(calls, Call("addData(QIODevice *)", mac,
                                         <<data, open>>))
    /\ UNCHANGED <<q, pc, stream, win, wasm, rgba>>

Result ==
    /\ mac # NoMac
    /\ Count("result") = 0
    /\ ret' = result(mac)
    /\ calls' = Append(calls, Call("result", mac, << >>))
    /\ UNCHANGED <<q, pc, stream, mac, win, wasm, rgba>>

Hash ==
    /\ mac = NoMac
    /\ calls = << >>
    /\ \E message \in ByteArrays(MaxLen + 1), key \in Keys,
          method \in Algorithms :
          /\ ret' = hash(message, key, method)
          /\ calls' = Append(calls, Call("hash", mac, <<message, key, method>>))
    /\ UNCHANGED <<q, pc, stream, mac, win, wasm, rgba>>

FLT_MAX == Fin(0, MantLimit - 1, EMax)

\* diagonal entries: small integers, 2^-26 (above 1e-8, below half an ulp of 1)
\* and the largest finite floats
DiagonalEntries ==
    {IntToFloat(n) : n \in Nums} \cup {ldexp(f_1, -26), FLT_MAX, fneg(FLT_MAX)}

\* a 3x3 matrix with diagonal d and the entries above and below it
Matrix3x3(d, above, below) ==
    [i \in 0..2 |-> [j \in 0..2 |-> IF i = j THEN d[i]
                                   ELSE IF i < j THEN above ELSE below]]

Matrices ==
    {Matrix3x3(d, IntToFloat(a), IntToFloat(b)) :
        d \in [0..2 -> DiagonalEntries], a \in {0, 1}, b \in {-1, 0, 1}}

\* fromRotationMatrix on any finite matrix
FromMatrix ==
    /\ pc = "new"
    /\ \E rot3x3 \in Matrices :
          /\ ret' = fromRotationMatrix(rot3x3)
          /\ calls' = Append(calls, Call("fromRotationMatrix", q, <<rot3x3>>))
    /\ pc' = "done"
    /\ UNCHANGED q
    /\ UNCHANGED elsewhere

\* q.getAxes(&xAxis, &yAxis, &zAxis)
GetAxes ==
    /\ Usable
    /\ ret' = getAxes(q)
    /\ pc' = "axes"
    /\ calls' = Append(calls, Call("getAxes", q, << >>))
    /\ UNCHANGED q
    /\ UNCHANGED elsewhere

\* QQuaternion::fromAxes(xAxis, yAxis, zAxis) on the axes getAxes stored
FromAxes ==
    /\ pc = "axes"
    /\ ret' = fromAxes(ret.xAxis, ret.yAxis, ret.zAxis)
    /\ pc' = "done"
    /\ calls' = Append(calls, Call("fromAxes", q,
                                   <<ret.xAxis, ret.yAxis, ret.zAxis>>))
    /\ UNCHANGED q
    /\ UNCHANGED elsewhere

MaxEvents == 5

\* Window(title, api)
WindowConstruct ==
    /\ ~win.constructed
    /\ \E notExposed \in BOOLEAN : win' = Window(notExposed)
    /\ UNCHANGED <<q, pc, calls, ret, stream, mac, wasm, rgba>>

\* an expose event arrives; isExposed() is the platform's answer
ExposeEvent ==
    /\ win.constructed
    /\ Len(win.events) < MaxEvents
    /\ \E isExposed \in BOOLEAN : win' = exposeEvent(win, isExposed)
    /\ UNCHANGED <<q, pc, calls, ret, stream, mac, wasm, rgba>>

EventUpdateRequest ==
    /\ win.constructed
    /\ Len(win.events) < MaxEvents
    /\ win' = updateRequest(win)
    /\ UNCHANGED <<q, pc, calls, ret, stream, mac, wasm, rgba>>

EventPlatformSurface ==
    /\ win.constructed
    /\ Len(win.events) < MaxEvents
    /\ \E aboutToBeDestroyed \in BOOLEAN :
          win' = platformSurface(win, aboutToBeDestroyed)
    /\ UNCHANGED <<q, pc, calls, ret, stream, mac, wasm, rgba>>

MaxDialogs == 2
MaxFiles == 2

\* the answers of acceptFile (a buffer, or null) for a selection of n files
Selections(n) == [1..n -> BOOLEAN]

\* openFiles(accept, fileSelectMode, fileDialogClosed, acceptFile, fileDataReady)
OpenFiles ==
    /\ Len(wasm.dialogs) < MaxDialogs
    /\ wasm' = openFileDialog(wasm, "openFiles")
    /\ UNCHANGED <<q, pc, calls, ret, stream, mac, win, rgba>>

\* openFile(accept, fileDialogClosed, acceptFile, fileDataReady)
OpenFile ==
    /\ Len(wasm.dialogs) < MaxDialogs
    /\ wasm' = openFileDialog(wasm, "openFile")
    /\ UNCHANGED <<q, pc, calls, ret, stream, mac, win, rgba>>

\* the change event of a dialog's input element fires: the registered
\* callback runs with input["files"]
ChangeEvent ==
    /\ \E d \in wasm.changeEvent, n \in 0..MaxFiles :
          /\ wasm.dialogs[d].state = "open"
          /\ wasm.dialogs[d].api = "openFile" => n <= 1
          /\ \E accepts \in Selections(n) : wasm' = filesSelected(wasm, d, accepts)
    /\ UNCHANGED <<q, pc, calls, ret, stream, mac, win, rgba>>

\* the user cancels a dialog: there is no event
DialogCancelled ==
    /\ \E d \in 1..Len(wasm.dialogs) :
          /\ wasm.dialogs[d].state = "open"
          /\ wasm' = [wasm EXCEPT !.dialogs[d].state = "cancelled"]
    /\ UNCHANGED <<q, pc, calls, ret, stream, mac, win, rgba>>

\* a started file.stream read completes and its callback runs
StreamCompleted ==
    /\ \E d \in 1..Len(wasm.dialogs) : \E fileIndex \in wasm.dialogs[d].reading :
          wasm' = streamCompleted(wasm, d, fileIndex)
    /\ UNCHANGED <<q, pc, calls, ret, stream, mac, win, rgba>>

\* the largest quint8
MaxChannel == Pow2(8) - 1

\* 8-bit colours in which every channel takes every value
Colours8 ==
    {<<v, (7 * v + 3) % 256, MaxChannel - v, (3 * v + 128) % 256>> :
        v \in 0..MaxChannel}

\* 32-bit values: those colours as ARGB, and the patterns of one byte set
Words ==
    {Uint(c[4] * 256 + c[1], c[2] * 256 + c[3]) : c \in Colours8}
        \cup {Uint(hi, lo) : hi \in {0, 255, 65280, 65535},
                             lo \in {0, 255, 65280, 65535}}

\* component values outside fromRgba's: out of range, not finite, NaN
Components ==
    {f_0, fneg(f_0), f_0_5, f_1, f_2, fneg(f_1), Inf(0), Inf(1), NaN,
     Fin(0, 8437760, -24), ldexp(f_1, -9)}

FromRgba ==
    /\ rgba.made = "none"
    /\ \E F \in Types, c \in Colours8 :
          rgba' \in fromRgba(F, c[1], c[2], c[3], c[4], "fromRgba", c)
    /\ UNCHANGED <<q, pc, calls, ret, stream, mac, win, wasm>>

FromArgb32 ==
    /\ rgba.made = "none"
    /\ \E F \in Types, rgb \in Words : rgba' \in fromArgb32(F, rgb)
    /\ UNCHANGED <<q, pc, calls, ret, stream, mac, win, wasm>>

\* QRgbaFloat<F>{r, g, b, a}: one component is any value, the others 0, 1/2, 1
RgbaAggregate ==
    /\ rgba.made = "none"
    /\ \E F \in Types, x \in Components, n \in 0..3 :
          \E y \in AsType(F, x) :
             rgba' = QRgbaFloat(F, IF n = 0 THEN y ELSE f_0,
                                IF n = 1 THEN y ELSE f_0_5,
                                IF n = 2 THEN y ELSE f_1,
                                IF n = 3 THEN y ELSE f_1, "aggregate", << >>)
    /\ UNCHANGED <<q, pc, calls, ret, stream, mac, win, wasm>>

Red8 ==
    /\ rgba.made # "none"
    /\ \E v \in component8(rgba.r) :
          rgba' = [rgba EXCEPT !.fn = "red8", !.ret = Uint(0, v)]
    /\ UNCHANGED <<q, pc, calls, ret, stream, mac, win, wasm>>

Green8 ==
    /\ rgba.made # "none"
    /\ \E v \in component8(rgba.g) :
          rgba' = [rgba EXCEPT !.fn = "green8", !.ret = Uint(0, v)]
    /\ UNCHANGED <<q, pc, calls, ret, stream, mac, win, wasm>>

Blue8 ==
    /\ rgba.made # "none"
    /\ \E v \in component8(rgba.b) :
          rgba' = [rgba EXCEPT !.fn = "blue8", !.ret = Uint(0, v)]
    /\ UNCHANGED <<q, pc, calls, ret, stream, mac, win, wasm>>

Alpha8 ==
    /\ rgba.made # "none"
    /\ \E v \in component8(rgba.a) :
          rgba' = [rgba EXCEPT !.fn = "alpha8", !.ret = Uint(0, v)]
    /\ UNCHANGED <<q, pc, calls, ret, stream, mac, win, wasm>>

ToArgb32 ==
    /\ rgba.made # "none"
    /\ \E rgb \in toArgb32(rgba) :
          rgba' = [rgba EXCEPT !.fn = "toArgb32", !.ret = rgb]
    /\ UNCHANGED <<q, pc, calls, ret, stream, mac, win, wasm>>

Next ==
    \/ FromRgba
    \/ FromArgb32
    \/ RgbaAggregate
    \/ Red8
    \/ Green8
    \/ Blue8
    \/ Alpha8
    \/ ToArgb32
    \/ OpenFiles
    \/ OpenFile
    \/ ChangeEvent
    \/ DialogCancelled
    \/ StreamCompleted
    \/ WindowConstruct
    \/ ExposeEvent
    \/ EventUpdateRequest
    \/ EventPlatformSurface
    \/ GetAxes
    \/ FromAxes
    \/ Construct
    \/ FromAxisAndAngle
    \/ Normalize
    \/ Normalized
    \/ Inverted
    \/ OperatorMul
    \/ RotatedVector
    \/ ToRotationMatrix
    \/ FromRotationMatrix
    \/ Slerp
    \/ Nlerp
    \/ GetAxisAndAngle
    \/ FromEulerAngles
    \/ GetEulerAngles
    \/ RotationTo
    \/ FromDirection
    \/ StreamOut
    \/ StreamIn
    \/ MacConstruct
    \/ SetKey
    \/ AddData
    \/ AddDataLength
    \/ AddDataDevice
    \/ Result
    \/ Hash
    \/ FromMatrix

Spec == Init /\ [][Next]_vars

NextNormalize == Construct \/ Normalize \/ Normalized

SpecNormalize == Init /\ [][NextNormalize]_vars

NextInterp == Construct \/ Normalize \/ Slerp \/ Nlerp

SpecInterp == Init /\ [][NextInterp]_vars

NextAlgebra == Construct \/ Normalize \/ Inverted \/ OperatorMul \/ RotatedVector

SpecAlgebra == Init /\ [][NextAlgebra]_vars

NextMatrix == Construct \/ Normalize \/ ToRotationMatrix \/ FromRotationMatrix

SpecMatrix == Init /\ [][NextMatrix]_vars

NextAxisAngle == FromAxisAndAngle \/ GetAxisAndAngle

SpecAxisAngle == Init /\ [][NextAxisAngle]_vars

NextExtract == Construct \/ Normalize \/ GetAxisAndAngle

SpecExtract == Init /\ [][NextExtract]_vars

NextEuler == Construct \/ Normalize \/ FromEulerAngles \/ GetEulerAngles

SpecEuler == Init /\ [][NextEuler]_vars

NextDirection == RotationTo \/ FromDirection

SpecDirection == Init /\ [][NextDirection]_vars

NextStream == StreamOut \/ StreamIn

SpecStream == Init /\ [][NextStream]_vars

NextMac ==
    \/ MacConstruct
    \/ SetKey
    \/ AddData
    \/ AddDataLength
    \/ AddDataDevice
    \/ Result
    \/ Hash

SpecMac == Init /\ [][NextMac]_vars

NextAnyMatrix ==
    \/ FromMatrix
    \/ Construct
    \/ ToRotationMatrix
    \/ FromRotationMatrix

SpecAnyMatrix == Init /\ [][NextAnyMatrix]_vars

NextAxes ==
    \/ Construct
    \/ Normalize
    \/ GetAxes
    \/ FromAxes

SpecAxes == Init /\ [][NextAxes]_vars

NextWindow ==
    \/ WindowConstruct
    \/ ExposeEvent
    \/ EventUpdateRequest
    \/ EventPlatformSurface

SpecWindow == Init /\ [][NextWindow]_vars

NextFiles ==
    \/ OpenFiles
    \/ OpenFile
    \/ ChangeEvent
    \/ DialogCancelled
    \/ StreamCompleted

SpecFiles == Init /\ [][NextFiles]_vars

\* every started stream read eventually completes
SpecFilesFair == Init /\ [][NextFiles]_vars /\ WF_vars(StreamCompleted)

NextColour ==
    \/ FromRgba
    \/ FromArgb32
    \/ RgbaAggregate
    \/ Red8
    \/ Green8
    \/ Blue8
    \/ Alpha8
    \/ ToArgb32

SpecColour == Init /\ [][NextColour]_vars

\* ---------------------------------------------------------------------
\* Properties.  The vocabulary first: the fuzzy comparisons the properties
\* are stated with, and the call a state has just returned from.
\* ---------------------------------------------------------------------
Close(a, b) == qFuzzyIsNull(fsub(a, b))
Approx(a, b) == qFuzzyCompare(a, b) \/ (qFuzzyIsNull(a) /\ qFuzzyIsNull(b))
SameComponents(a, b) ==
    feq(a.wp, b.wp) /\ feq(a.xp, b.xp) /\ feq(a.yp, b.yp) /\ feq(a.zp, b.zp)
QClose(a, b) ==
    Close(a.wp, b.wp) /\ Close(a.xp, b.xp) /\ Close(a.yp, b.yp) /\ Close(a.zp, b.zp)
IsUnit(a) == qFuzzyCompare(length(a), f_1)
FuzzyIdentity(a) ==
    qFuzzyCompare(a.wp, f_1) /\ qFuzzyIsNull(a.xp) /\ qFuzzyIsNull(a.yp)
        /\ qFuzzyIsNull(a.zp)
Returned(fn) == pc = "done" /\ Len(calls) > 0 /\ Last.fn = fn

\* C1: for every quaternion q that is not null, q.normalized() returns a
\* quaternion whose length() is fuzzily equal to 1.
C1_NormalizedUnit ==
    (Returned("normalized") /\ ~isNull(Last.self))
        => qFuzzyCompare(length(ret), f_1)

\* C2: normalize() is the in-place equivalent of normalized(): the components
\* of q after q.normalize() equal the components q.normalized() returns for
\* the same starting q, the early exits included.
C2_NormalizeInPlace ==
    (pc = "normal" /\ Len(calls) > 0 /\ Last.fn = "normalize")
        => SameComponents(q, normalized(Last.self))

\* The arguments of the interpolation call just returned from
Arg_q1 == Last.args[1]
Arg_q2 == Last.args[2]
Arg_t == Last.args[3]
Inside(t) == fgt(t, f_0) /\ flt(t, f_1)

\* C3 as stated: for all non-null q1, q2 of any length and every t, t <= 0
\* and t >= 1 included, nlerp(q1, q2, t) returns a quaternion of unit length.
C3_NlerpUnit ==
    (Returned("nlerp") /\ ~isNull(Arg_q1) /\ ~isNull(Arg_q2))
        => IsUnit(ret)

\* C3 amended: nlerp returns q1 as given for t <= 0 and q2 as given for
\* t >= 1; for 0 < t < 1 it returns normalized() of the blend, of unit length
\* or, when the blend's length is fuzzily zero, the null quaternion.
C3_NlerpNormalizedInside ==
    Returned("nlerp")
        => IF fle(Arg_t, f_0) THEN ret = Arg_q1
           ELSE IF fge(Arg_t, f_1) THEN ret = Arg_q2
           ELSE IsUnit(ret) \/ isNull(ret)

C3_Witness ==
    /\ Returned("nlerp")
    /\ Arg_t = f_0_25
    /\ ~IsUnit(Arg_q1)
    /\ Arg_q2 = conjugated(Arg_q1)
    /\ Arg_q2 # Arg_q1
    /\ IsUnit(ret)
    /\ ~SameComponents(ret, Arg_q1)

\* C4: slerp clamps at the boundaries: it returns exactly q1, component for
\* component, whenever t <= 0 and exactly q2 whenever t >= 1.
C4_SlerpClamps ==
    Returned("slerp")
        => /\ fle(Arg_t, f_0) => ret = Arg_q1
           /\ fge(Arg_t, f_1) => ret = Arg_q2

C4_Witness ==
    /\ Returned("slerp")
    /\ Arg_t = f_1
    /\ ~IsUnit(Arg_q1)
    /\ ~isNull(Arg_q1)
    /\ Arg_q2 = operator_neg(Arg_q1)
    /\ ret = Arg_q2

\* C5 as stated: for every quaternion q and every t, slerp(q, q, t) equals
\* q (read generously: every component fuzzily equal).
C5_SlerpSelf ==
    (Returned("slerp") /\ Arg_q2 = Arg_q1) => QClose(ret, Arg_q1)

\* C5 amended: slerp(q, q, t) is fuzzily equal to q, component by component,
\* for every q of unit length and every t, and for any q when t <= 0 or
\* t >= 1.
C5_SlerpSelfUnit ==
    (Returned("slerp") /\ Arg_q2 = Arg_q1
        /\ (IsUnit(Arg_q1) \/ ~Inside(Arg_t)))
        => QClose(ret, Arg_q1)

C5_Witness ==
    /\ Returned("slerp")
    /\ Arg_q2 = Arg_q1
    /\ IsUnit(Arg_q1)
    /\ Arg_t = f_0_3
    /\ ~isZero(Arg_q1.xp)
    /\ ~isZero(Arg_q1.yp)
    /\ QClose(ret, Arg_q1)

VectorLength(v) == qHypot3(v.x, v.y, v.z)

\* C7: rotatedVector(v) is the vector part of q * (0, v) * conjugate(q); its
\* length is |q|^2 times |v|, which for a unit q is the length of v: there
\* is no implicit normalization.
C7_RotatedVectorLength ==
    Returned("rotatedVector")
        => /\ ret = vector(operator_mul(
                        operator_mul(q, QQuaternion(f_0, Last.args[1].x,
                                                    Last.args[1].y,
                                                    Last.args[1].z)),
                        conjugated(q)))
           /\ Approx(VectorLength(ret),
                     fmul(lengthSquared(q), VectorLength(Last.args[1])))
           /\ IsUnit(q)
                => Approx(VectorLength(ret), VectorLength(Last.args[1]))

C7_Witness ==
    /\ Returned("rotatedVector")
    /\ q = QQuaternion(f_1, f_1, f_0, f_0)
    /\ Last.args[1] = QVector3D(f_0, f_1, f_1)
    /\ ~Close(ret.y, Last.args[1].y)
    /\ qFuzzyCompare(VectorLength(ret), fmul(f_2, VectorLength(Last.args[1])))

\* C8: for every unit quaternion q, fromRotationMatrix(q.toRotationMatrix())
\* is fuzzily equal to q or to -q, whichever branch of fromRotationMatrix
\* (positive trace, or dominant diagonal entry 0, 1 or 2) is taken.
C8_MatrixRoundTrip ==
    (Returned("fromRotationMatrix") /\ IsUnit(q))
        => QClose(ret, q) \/ QClose(ret, operator_neg(q))

C8_Witness ==
    /\ Returned("fromRotationMatrix")
    /\ Last.args[1] = toRotationMatrix(q)
    /\ IsUnit(q)
    /\ ~fgt(trace(Last.args[1]), f_0_00000001)
    /\ DominantIndex(Last.args[1]) = 1
    /\ ~isZero(q.yp)
    /\ ~isZero(q.zp)
    /\ QClose(ret, operator_neg(q))
    /\ ~QClose(ret, q)

\* The axis and the angle fromAxisAndAngle was called with, and the round
\* trip fromAxisAndAngle then getAxisAndAngle
Arg_axis == calls[1].args[1]
Arg_angle == calls[1].args[2]
RoundTrip ==
    /\ Returned("getAxisAndAngle")
    /\ Len(calls) = 2
    /\ calls[1].fn = "fromAxisAndAngle"
    /\ qFuzzyCompare(VectorLength(Arg_axis), f_1)
    /\ fge(Arg_angle, f_0)
    /\ fle(Arg_angle, f_180)
f_0_1 == Fin(0, 13421773, -27)
f_sentinel_angle == ldexp(f_1, -10)
f_recovered_angle == ldexp(f_1, -9)
\* getAxisAndAngle gave back the axis, each component within the fuzzy-null
\* tolerance, and the angle within a tenth of a degree
Recovered ==
    /\ Close(ret.x, Arg_axis.x)
    /\ Close(ret.y, Arg_axis.y)
    /\ Close(ret.z, Arg_axis.z)
    /\ fle(fabs(fsub(ret.angle, Arg_angle)), f_0_1)
Sentinel == ret = [x |-> f_0, y |-> f_0, z |-> f_0, angle |-> f_0]

\* C9 as stated: for every unit axis a and every angle theta in [0, 180]
\* degrees, getAxisAndAngle applied to fromAxisAndAngle(a, theta) recovers a
\* and theta within tolerance, except at theta = 0 where it returns the zero
\* axis (0,0,0) and angle 0.
C9_AxisAngleRoundTrip ==
    RoundTrip => IF isZero(Arg_angle) THEN Sentinel ELSE Recovered

\* C9 amended: the zero axis and angle 0 are returned for every theta up to
\* 2^-10 degree, not only for theta = 0; a and theta are recovered (the axis
\* within 0.00001 per component, the angle within 0.1 degree) for every theta
\* from 2^-9 degree to 180 degrees.
C9_AxisAngleRoundTripAboveThreshold ==
    RoundTrip
        => /\ fle(Arg_angle, f_sentinel_angle) => Sentinel
           /\ fge(Arg_angle, f_recovered_angle) => Recovered

C9_Witness ==
    /\ RoundTrip
    /\ Arg_angle = f_120
    /\ ~isZero(Arg_axis.x)
    /\ ~isZero(Arg_axis.y)
    /\ ~isZero(Arg_axis.z)
    /\ Recovered
    /\ ~Sentinel

\* C10: fromAxisAndAngle creates a normalized quaternion: for every axis of
\* non-zero length, pre-normalized or not, and every angle in degrees, the
\* returned quaternion has length fuzzily equal to 1.
C10_FromAxisAndAngleUnit ==
    (pc = "built" /\ Len(calls) = 1 /\ ~isZero(VectorLength(Arg_axis)))
        => IsUnit(q)

f_360 == IntToFloat(360)
IsFiniteQ(a) ==
    isFinite(a.wp) /\ isFinite(a.xp) /\ isFinite(a.yp) /\ isFinite(a.zp)

\* C11: getAxisAndAngle is total with a well-formed output for every finite
\* quaternion, unit or not: the zero axis and angle 0 if the length of the
\* vector part is fuzzily zero, otherwise a unit-length axis and an angle that
\* is a number within [0, 360] degrees.
C11_AxisAndAngleWellFormed ==
    (Returned("getAxisAndAngle") /\ IsFiniteQ(q))
        => IF qFuzzyIsNull(qHypot3(q.xp, q.yp, q.zp))
           THEN Sentinel
           ELSE /\ qFuzzyCompare(qHypot3(ret.x, ret.y, ret.z), f_1)
                /\ fge(ret.angle, f_0)
                /\ fle(ret.angle, f_360)

\* C12: getEulerAngles detects gimbal lock on the components rescaled by the
\* length: whenever |sin(pitch)| = |-2(yz - xw)| is not below 1 - 1e-5 it
\* reports pitch = +90 or -90 with the sign of sin(pitch), roll = 0 exactly and
\* yaw = 2*atan2(y, w); getEulerAngles on fromEulerAngles(90, 0, 0) takes this
\* branch and reports roll = 0.
SinPitchOf(a) == sinPitch(eulerScaled(a, length(a)))
FromPitch90 ==
    /\ Len(calls) = 2
    /\ calls[1].fn = "fromEulerAngles"
    /\ calls[1].args = <<f_90, f_0, f_0>>
C12_GimbalLock ==
    Returned("getEulerAngles")
        => /\ gimbalLock(SinPitchOf(q))
              => /\ ret.pitch = Negate(SinPitchOf(q).s = 1, f_90)
                 /\ ret.roll = f_0
                 /\ Approx(ret.yaw,
                           qRadiansToDegrees(fmul(f_2, atan2f(q.yp, q.wp))))
           /\ FromPitch90 => gimbalLock(SinPitchOf(q)) /\ ret.roll = f_0
C12_Witness ==
    /\ Returned("getEulerAngles")
    /\ FromPitch90
    /\ gimbalLock(SinPitchOf(q))
    /\ ret = [pitch |-> f_90, yaw |-> f_0, roll |-> f_0]

\* C13: for antiparallel directions (the dot product of the normalized from and
\* to, plus 1, fuzzily zero) rotationTo returns a 180 degree rotation: scalar
\* 0 and as vector part a unit axis perpendicular to from, which is
\* cross(X axis, from) unless that is fuzzily zero and then cross(Y axis, from);
\* rotationTo((1,0,0), (-1,0,0)) is such a case.
Arg_from == QVector3D_normalized(Last.args[1])
Arg_to == QVector3D_normalized(Last.args[2])
Antiparallel ==
    qFuzzyIsNull(fadd(QVector3D_dotProduct(Arg_from, Arg_to), f_1))
CrossIsNull(v1, v2) ==
    qFuzzyIsNull(QVector3D_lengthSquared(crossProduct(v1, v2)))
Built(fn) == pc = "built" /\ Len(calls) > 0 /\ Last.fn = fn
C13_HalfTurn ==
    (Built("rotationTo") /\ Antiparallel)
        => /\ q.wp = f_0
           /\ qFuzzyCompare(QVector3D_length(vector(q)), f_1)
           /\ qFuzzyIsNull(QVector3D_dotProduct(vector(q), Arg_from))
           /\ vector(q) = QVector3D_normalize(
                              IF CrossIsNull(AxisX, Arg_from)
                              THEN crossProduct(AxisY, Arg_from)
                              ELSE crossProduct(AxisX, Arg_from))
           /\ (Last.args = <<AxisX, QVector3D(fneg(f_1), f_0, f_0)>>)
                => q = QQuaternion(f_0, f_0, f_0, fneg(f_1))
C13_Witness ==
    /\ Built("rotationTo")
    /\ Last.args = <<AxisX, QVector3D(fneg(f_1), f_0, f_0)>>
    /\ Antiparallel
    /\ q = QQuaternion(f_0, f_0, f_0, fneg(f_1))

\* C14: fromDirection never fails: a zero direction yields the identity
\* whatever up is; when up is collinear with the direction (the cross product
\* of up and the normalized direction has a fuzzily zero squared length, which
\* includes a zero up) the result is exactly rotationTo((0,0,1), normalized
\* direction); only otherwise the frame is built through fromAxes.
Arg_direction == Last.args[1]
Arg_up == Last.args[2]
Collinear == CrossIsNull(Arg_up, QVector3D_normalized(Arg_direction))
FrameOf(zAxis, xAxis) == fromAxes(xAxis, crossProduct(zAxis, xAxis), zAxis)
C14_FromDirectionTotal ==
    Built("fromDirection")
        => /\ IsFiniteQ(q)
           /\ Arg_direction = ZeroVector => q = QQuaternion(f_1, f_0, f_0, f_0)
           /\ (Arg_direction # ZeroVector /\ Collinear)
                => q = rotationTo(AxisZ, QVector3D_normalized(Arg_direction))
           /\ (Arg_direction # ZeroVector /\ ~Collinear)
                => q = FrameOf(QVector3D_normalized(Arg_direction),
                               QVector3D_normalize(
                                   crossProduct(Arg_up,
                                       QVector3D_normalized(Arg_direction))))

\* C15: the stream operators keep a fixed field order: operator<< appends
\* exactly four floats, scalar, x, y, z, and operator>> consumes four floats
\* in that order, so after any number of writes followed by as many reads, or
\* fewer, the quaternions read are the quaternions written, component for
\* component.
WritesThenReads ==
    \A i \in 1..Len(calls) :
       (calls[i].fn = "operator<<") = (i <= Count("operator<<"))
RECURSIVE Written(_, _)
Written(from, to) ==
    IF from > to THEN << >>
    ELSE <<Widen(calls[from].args[1].wp), Widen(calls[from].args[1].xp),
           Widen(calls[from].args[1].yp), Widen(calls[from].args[1].zp)>>
         \o Written(from + 1, to)
C15_StreamRoundTrip ==
    (WritesThenReads /\ Count("operator>>") <= Count("operator<<"))
        => /\ \A i \in 1..Count("operator>>") :
                 calls[Count("operator<<") + i].args[1] = calls[i].args[1]
           /\ Count("operator>>") > 0
                => q = calls[Count("operator>>")].args[1]
           /\ stream.data = Written(Count("operator>>") + 1,
                                    Count("operator<<"))
           /\ stream.status = "Ok"
C15_Witness ==
    /\ WritesThenReads
    /\ Count("operator<<") = 2
    /\ Count("operator>>") = 2
    /\ calls[1].args[1] # calls[2].args[1]
    /\ q = calls[2].args[1]
    /\ q.wp # q.xp
    /\ stream.data = << >>

\* C16: the message authentication code depends only on the algorithm, the key
\* and the concatenation of the bytes added after setKey: the message added in
\* two consecutive addData calls (left half, then right half), through the
\* (const char *, length) overload, through a QIODevice (which returns true)
\* and the static hash(message, key, algo) all give the result of a single
\* addData(message).
Called(fn) == Len(calls) > 0 /\ Last.fn = fn
\* the bytes one call adds
BytesOf(call) ==
    IF call.fn = "addData(QByteArrayView)" THEN call.args[1]
    ELSE IF call.fn = "addData(const char *, qsizetype)"
    THEN mid(call.args[1], 0, call.args[2])
    ELSE IF call.fn = "addData(QIODevice *)" /\ call.args[2] THEN call.args[1]
    ELSE << >>
\* the bytes added by the calls from index i on, after the last setKey
RECURSIVE AddedFrom(_)
AddedFrom(i) ==
    IF i > Len(calls) THEN << >>
    ELSE IF calls[i].fn = "setKey" THEN AddedFrom(i + 1)
    ELSE IF \E j \in (i + 1)..Len(calls) : calls[j].fn = "setKey"
    THEN AddedFrom(i + 1)
    ELSE BytesOf(calls[i]) \o AddedFrom(i + 1)
KeySet ==
    IF \E i \in 1..Len(calls) : calls[i].fn = "setKey"
    THEN calls[CHOOSE i \in 1..Len(calls) : calls[i].fn = "setKey"].args[1]
    ELSE << >>
SingleAddData(message, key, method) ==
    result(addData(setKey(QMessageAuthenticationCode(method), key), message))
Halves(message) ==
    /\ Len(calls) = 5
    /\ calls[2].fn = "setKey"
    /\ calls[3].fn = "addData(QByteArrayView)"
    /\ calls[3].args[1] = leftPart(message)
    /\ calls[4].fn = "addData(QByteArrayView)"
    /\ calls[4].args[1] = rightPart(message)
Arg_rot3x3 == Last.args[1]
PositiveTrace == fgt(trace(Arg_rot3x3), f_0_00000001)
Arg_i == DominantIndex(Arg_rot3x3)
Arg_j == s_next[Arg_i]
Arg_k == s_next[Arg_j]
Locals == {<<"scalar", 0>>, <<"axis", 0>>, <<"axis", 1>>, <<"axis", 2>>}
StoredOnce(seq) ==
    /\ Len(seq) = 4
    /\ {<<seq[n].target, seq[n].index>> : n \in 1..4} = Locals
LargestEntry(i) ==
    \A n \in 0..2 : fge(Arg_rot3x3[i][i], Arg_rot3x3[n][n])
C17_DominantIndex ==
    Returned("fromRotationMatrix")
        => /\ StoredOnce(stores(Arg_rot3x3))
           /\ ret = QQuaternion(Stored(stores(Arg_rot3x3), "scalar", 0),
                                Stored(stores(Arg_rot3x3), "axis", 0),
                                Stored(stores(Arg_rot3x3), "axis", 1),
                                Stored(stores(Arg_rot3x3), "axis", 2))
           /\ ~PositiveTrace
                => /\ LargestEntry(Arg_i)
                   /\ feq(Arg_rot3x3[0][0], Arg_rot3x3[1][1]) => Arg_i # 1
                   /\ Arg_i = 2
                        => /\ fgt(Arg_rot3x3[2][2], Arg_rot3x3[0][0])
                           /\ fgt(Arg_rot3x3[2][2], Arg_rot3x3[1][1])
                   /\ Arg_j = (Arg_i + 1) % 3
                   /\ Arg_k = (Arg_i + 2) % 3
                   /\ <<Arg_i, Arg_j, Arg_k>>
                         \in {<<0, 1, 2>>, <<1, 2, 0>>, <<2, 0, 1>>}
                   /\ stores(Arg_rot3x3)[1].index = Arg_i
C17_Witness ==
    /\ Returned("fromRotationMatrix")
    /\ ~PositiveTrace
    /\ feq(Arg_rot3x3[0][0], Arg_rot3x3[1][1])
    /\ feq(Arg_rot3x3[0][0], Arg_rot3x3[2][2])
    /\ Arg_rot3x3[0][1] # Arg_rot3x3[1][0]
    /\ Arg_i = 0
    /\ ret.xp = Stored(stores(Arg_rot3x3), "axis", 0)
    /\ ret.wp # f_0

\* C18 as claimed: fromRotationMatrix never divides by zero and never takes
\* the square root of a negative number, for every finite 3x3 matrix: in the
\* positive-trace branch trace + 1 > 1, in the other branch
\* m(i,i) - m(j,j) - m(k,k) + 1 is strictly positive, i being the index of a
\* largest diagonal entry, and the divisor s is strictly positive in both.
Radicand(i) ==
    fadd(fsub(fsub(Arg_rot3x3[i][i], Arg_rot3x3[s_next[i]][s_next[i]]),
              Arg_rot3x3[s_next[s_next[i]]][s_next[s_next[i]]]), f_1)
\* s / 4 as the result holds it: the scalar, or axis[i]
QuarterDivisor ==
    IF PositiveTrace THEN ret.wp
    ELSE IF Arg_i = 0 THEN ret.xp ELSE IF Arg_i = 1 THEN ret.yp ELSE ret.zp
SafeDominant ==
    /\ \A i \in 0..2 : LargestEntry(i) => fgt(Radicand(i), f_0)
    /\ fgt(QuarterDivisor, f_0)
C18_NoBadRoot ==
    Returned("fromRotationMatrix")
        => IF PositiveTrace
           THEN /\ fgt(fadd(trace(Arg_rot3x3), f_1), f_1)
                /\ fgt(QuarterDivisor, f_0)
           ELSE SafeDominant
\* C18, amended: as claimed, except that in the positive-trace branch
\* trace + 1 >= 1: computed in float the sum is exactly 1 for a trace below
\* 2^-24, and the divisor is then 2.
C18_NoBadRootRounded ==
    Returned("fromRotationMatrix")
        => IF PositiveTrace
           THEN /\ fge(fadd(trace(Arg_rot3x3), f_1), f_1)
                /\ fgt(QuarterDivisor, f_0)
           ELSE SafeDominant
C18_Witness ==
    /\ Returned("fromRotationMatrix")
    /\ PositiveTrace
    /\ fadd(trace(Arg_rot3x3), f_1) = f_1
    /\ ret.wp = f_0_5
    /\ ret.zp = f_0_5

\* C19: getAxes returns columns 0, 1, 2 of toRotationMatrix() as xAxis,
\* yAxis, zAxis; fromAxes stores xAxis, yAxis, zAxis as columns 0, 1, 2 before
\* calling fromRotationMatrix; so for every quaternion q, fromAxes applied to
\* the axes of q.getAxes() equals fromRotationMatrix(q.toRotationMatrix())
\* exactly.
Column(rot3x3, j) == QVector3D(rot3x3[0][j], rot3x3[1][j], rot3x3[2][j])
AxesAreColumns(axes, rot3x3) ==
    /\ axes[1] = Column(rot3x3, 0)
    /\ axes[2] = Column(rot3x3, 1)
    /\ axes[3] = Column(rot3x3, 2)
C19_AxesRoundTrip ==
    /\ (pc = "axes" /\ Last.fn = "getAxes")
          => AxesAreColumns(<<ret.xAxis, ret.yAxis, ret.zAxis>>,
                            toRotationMatrix(q))
    /\ Returned("fromAxes")
          => /\ AxesAreColumns(Last.args,
                     axesAsColumns(Last.args[1], Last.args[2], Last.args[3]))
             /\ ret = fromRotationMatrix(toRotationMatrix(Last.self))
C19_Witness ==
    /\ Returned("fromAxes")
    /\ Last.args[1].y # Last.args[2].x
    /\ Last.args[1] = Column(toRotationMatrix(q), 0)
    /\ ret = fromAxes(Last.args[1], Last.args[2], Last.args[3])
    /\ ret.xp # f_0

\* C20: once a running window (m_running true) has handled an expose event
\* while isExposed() is false, no UpdateRequest event emits renderRequested
\* until an expose event is handled with isExposed() true, over any sequence
\* of expose, UpdateRequest and PlatformSurface events.
Emits(e, signals) == \E n \in 1..Len(e.emitted) : e.emitted[n] \in signals
RenderRequested == {"renderRequested(true)", "renderRequested(false)"}
StoppedAt(m) ==
    /\ win.events[m].type = "Expose"
    /\ ~win.events[m].flag
    /\ win.events[m].running
ExposedBetween(m, n) ==
    \E r \in (m + 1)..(n - 1) :
        win.events[r].type = "Expose" /\ win.events[r].flag
PushedAt(n) ==
    /\ win.events[n].type = "UpdateRequest"
    /\ Emits(win.events[n], RenderRequested)
C20_NoFramesWhileHidden ==
    \A m \in 1..Len(win.events), n \in 1..Len(win.events) :
        (m < n /\ StoppedAt(m) /\ PushedAt(n)) => ExposedBetween(m, n)
C20_Witness ==
    /\ Len(win.events) = 5
    /\ StoppedAt(2)
    /\ win.events[3].type = "UpdateRequest"
    /\ ~PushedAt(3)
    /\ ExposedBetween(3, 5)
    /\ Emits(win.events[4], RenderRequested)
    /\ PushedAt(5)

\* C21: each expose event handled while isExposed() is true emits exactly one
\* of three signal sequences, chosen by the flags: not yet running,
\* initRequested then renderRequested(true); running and marked not exposed,
\* renderRequested(true) only, and the mark is cleared; running and not
\* marked, syncSurfaceSizeRequested only.  An expose event handled while
\* isExposed() is false emits no signal.
NewEvent == win'.events[Len(win'.events)]
ExposeHandled ==
    /\ win.constructed
    /\ Len(win'.events) = Len(win.events) + 1
    /\ NewEvent.type = "Expose"
ExposeSignals ==
    IF ~NewEvent.flag THEN NewEvent.emitted = << >>
    ELSE IF ~win.m_running
         THEN NewEvent.emitted = <<"initRequested", "renderRequested(true)">>
    ELSE IF win.m_notExposed
         THEN /\ NewEvent.emitted = <<"renderRequested(true)">>
              /\ ~win'.m_notExposed
    ELSE NewEvent.emitted = <<"syncSurfaceSizeRequested">>
C21_ExposeSignals == [][ExposeHandled => ExposeSignals]_vars
ExposedAt(n) == win.events[n].type = "Expose" /\ win.events[n].flag
C21_Witness ==
    /\ Len(win.events) = 5
    /\ ExposedAt(1)
    /\ win.events[1].emitted = <<"initRequested", "renderRequested(true)">>
    /\ ExposedAt(2)
    /\ win.events[2].emitted = <<"syncSurfaceSizeRequested">>
    /\ StoppedAt(3)
    /\ win.events[3].emitted = << >>
    /\ ExposedAt(4)
    /\ win.events[4].emitted = <<"renderRequested(true)">>
    /\ ExposedAt(5)
    /\ win.events[5].emitted = <<"syncSurfaceSizeRequested">>

\* C24: readFiles processes the files strictly one at a time in index order:
\* acceptFile is called for file i+1 only after file i was either rejected or
\* its stream completion callback ran and called fileDataReady; at most one
\* file.stream read is in flight at any time, and fileDataReady for file i
\* precedes acceptFile for file i+1.
Dialogs == 1..Len(wasm.dialogs)
LogOf(d) == wasm.dialogs[d].log
Calls(d) == 1..Len(LogOf(d))
IsCall(d, p, cb) == LogOf(d)[p].cb = cb
IsFileCall(d, p, cb, fileIndex) ==
    IsCall(d, p, cb) /\ LogOf(d)[p].arg = fileIndex
FileSettledBefore(d, p, fileIndex) ==
    \E r \in 1..(p - 1) :
        /\ IsFileCall(d, r, "acceptFile", fileIndex)
        /\ \/ ~LogOf(d)[r].flag
           \/ \E t \in (r + 1)..(p - 1) :
                 IsFileCall(d, t, "fileDataReady", fileIndex)
InIndexOrder(d) ==
    \A p \in Calls(d), r \in Calls(d) :
        (p < r /\ IsCall(d, p, "acceptFile") /\ IsCall(d, r, "acceptFile"))
            => LogOf(d)[p].arg < LogOf(d)[r].arg
C24_OneFileAtATime ==
    \A d \in Dialogs :
        /\ Cardinality(wasm.dialogs[d].reading) <= 1
        /\ InIndexOrder(d)
        /\ \A p \in Calls(d) :
              (IsCall(d, p, "acceptFile") /\ LogOf(d)[p].arg > 0)
                  => FileSettledBefore(d, p, LogOf(d)[p].arg - 1)
C24_Witness ==
    /\ Len(wasm.dialogs) = 1
    /\ wasm.dialogs[1].files = 2
    /\ wasm.dialogs[1].reading = {1}
    /\ Len(LogOf(1)) = 4
    /\ IsFileCall(1, 2, "acceptFile", 0)
    /\ LogOf(1)[2].flag
    /\ IsFileCall(1, 3, "fileDataReady", 0)
    /\ IsFileCall(1, 4, "acceptFile", 1)

\* C25: for a list of n files, provided every started stream read eventually
\* completes, the readFiles chain terminates after acceptFile has been called
\* exactly once for each index 0..n-1 and fileDataReady exactly once for each
\* file whose acceptFile returned a buffer and never for a rejected file; for
\* an empty list neither callback is called; the self-referencing readFile
\* function is released when the index reaches n.
Selected(d) == d \in Dialogs /\ wasm.dialogs[d].state = "selected"
ChainDone(d) ==
    /\ Selected(d)
    /\ wasm.dialogs[d].fileIndex = wasm.dialogs[d].files
    /\ wasm.dialogs[d].reading = {}
CountOf(d, cb, fileIndex) ==
    Cardinality({p \in Calls(d) : IsFileCall(d, p, cb, fileIndex)})
FileCallbacks == {"acceptFile", "fileDataReady"}
CalledOncePerFile(d) ==
    /\ \A p \in Calls(d) :
          LogOf(d)[p].cb \in FileCallbacks
              => LogOf(d)[p].arg \in 0..(wasm.dialogs[d].files - 1)
    /\ \A i \in 0..(wasm.dialogs[d].files - 1) :
          /\ CountOf(d, "acceptFile", i) = 1
          /\ CountOf(d, "fileDataReady", i)
                = IF wasm.dialogs[d].accepts[i + 1] THEN 1 ELSE 0
ChainSafe(d) ==
    /\ wasm.dialogs[d].readFile
          <=> wasm.dialogs[d].fileIndex < wasm.dialogs[d].files
    /\ ChainDone(d) => CalledOncePerFile(d)
    /\ \A i \in 0..(wasm.dialogs[d].files - 1) :
          /\ CountOf(d, "acceptFile", i) <= 1
          /\ CountOf(d, "fileDataReady", i) <= CountOf(d, "acceptFile", i)
C25_ChainTerminates ==
    /\ [](\A d \in Dialogs : Selected(d) => ChainSafe(d))
    /\ \A d \in 1..MaxDialogs : Selected(d) ~> ChainDone(d)
C25_Witness ==
    /\ ChainDone(1)
    /\ wasm.dialogs[1].accepts = <<FALSE, TRUE>>
    /\ ~wasm.dialogs[1].readFile
    /\ Len(LogOf(1)) = 4
    /\ IsFileCall(1, 2, "acceptFile", 0)
    /\ IsFileCall(1, 3, "acceptFile", 1)
    /\ IsFileCall(1, 4, "fileDataReady", 1)

\* C26: when the user selects files in a dialog opened by openFiles,
\* fileDialogClosed is called exactly once with the number of selected files
\* and before any acceptFile or fileDataReady call for that selection; openFile
\* passes fileDialogClosed the value true exactly when that number is not 0;
\* if the user cancels the dialog no callback is ever called.
DialogClosedCalls == {"fileDialogClosed", "fileDialogClosed(bool)"}
ClosedFirstAndOnce(d) ==
    /\ Len(LogOf(d)) >= 1
    /\ \A p \in Calls(d) : (LogOf(d)[p].cb \in DialogClosedCalls) <=> (p = 1)
    /\ IF wasm.dialogs[d].api = "openFiles"
       THEN /\ LogOf(d)[1].cb = "fileDialogClosed"
            /\ LogOf(d)[1].arg = wasm.dialogs[d].files
       ELSE /\ LogOf(d)[1].cb = "fileDialogClosed(bool)"
            /\ LogOf(d)[1].flag <=> (wasm.dialogs[d].files # 0)
C26_DialogClosedFirst ==
    \A d \in Dialogs :
        IF wasm.dialogs[d].state = "selected"
        THEN ClosedFirstAndOnce(d)
        ELSE LogOf(d) = << >>
C26_Witness ==
    /\ Len(wasm.dialogs) = 2
    /\ wasm.dialogs[1].api = "openFile"
    /\ wasm.dialogs[1].state = "selected"
    /\ wasm.dialogs[1].files = 0
    /\ Len(LogOf(1)) = 1
    /\ ~LogOf(1)[1].flag
    /\ wasm.dialogs[2].api = "openFiles"
    /\ wasm.dialogs[2].state = "selected"
    /\ LogOf(2)[1].arg = 2
    /\ Len(LogOf(2)) = 4
    /\ IsFileCall(2, 2, "acceptFile", 0)

\* C27: at most one file-dialog change callback is registered at any time:
\* openFileDialog stores the callback in a single static slot, so a second
\* openFileDialog call made before the first dialog's change event fires
\* replaces the first registration and the first call's filesSelected callback
\* is never invoked afterwards; only the most recent call's callback can run.
Replaced(d) == d \in Dialogs /\ d < Len(wasm.dialogs)
FilesSelectedRuns(d) ==
    /\ d \in Dialogs
    /\ wasm.dialogs[d].state = "open"
    /\ wasm'.dialogs[d].state = "selected"
SingleSlot ==
    /\ Cardinality(wasm'.changeEvent) <= 1
    /\ Len(wasm'.dialogs) > 0 => wasm'.changeEvent = {Len(wasm'.dialogs)}
    /\ \A d \in 1..MaxDialogs :
          /\ FilesSelectedRuns(d) => d = Len(wasm.dialogs)
          /\ (Replaced(d) /\ wasm.dialogs[d].state # "selected")
                => wasm'.dialogs[d].log = << >>
C27_SingleRegistration == [][SingleSlot]_vars
C27_Witness ==
    /\ Len(wasm.dialogs) = 2
    /\ wasm.dialogs[1].state = "open"
    /\ LogOf(1) = << >>
    /\ wasm.changeEvent = {2}
    /\ wasm.dialogs[2].state = "selected"
    /\ wasm.dialogs[2].fileIndex = wasm.dialogs[2].files
    /\ Len(LogOf(2)) = 3

\* C28 as claimed: for all 8-bit r, g, b, a, fromRgba(r, g, b, a) has
\* red8() = r, green8() = g, blue8() = b, alpha8() = a; for every 32-bit value
\* x, fromArgb32(x).toArgb32() = x, with alpha in bits 24-31, red in bits
\* 16-23, green in bits 8-15 and blue in bits 0-7; the 8-bit accessors always
\* return a value in 0..255 because each component is clamped to [0, 1] first.
Accessors8 == {"red8", "green8", "blue8", "alpha8"}
Accessed ==
    IF rgba.fn = "red8" THEN rgba.r ELSE IF rgba.fn = "green8" THEN rgba.g
    ELSE IF rgba.fn = "blue8" THEN rgba.b ELSE rgba.a
ArgOf(fn) ==
    IF fn = "red8" THEN 1 ELSE IF fn = "green8" THEN 2
    ELSE IF fn = "blue8" THEN 3 ELSE 4
InUnitRange(x) == fle(f_0, x) /\ fle(x, f_1)
RoundTrip8 ==
    (rgba.made = "fromRgba" /\ rgba.fn \in Accessors8)
        => rgba.ret = Uint(0, rgba.args[ArgOf(rgba.fn)])
RoundTrip32 ==
    rgba.made = "fromArgb32"
        => /\ rgba.a \in AsType(rgba.F, fromRgbaComponent(rgba.args[1] \div 256))
           /\ rgba.r \in AsType(rgba.F, fromRgbaComponent(rgba.args[1] % 256))
           /\ rgba.g \in AsType(rgba.F, fromRgbaComponent(rgba.args[2] \div 256))
           /\ rgba.b \in AsType(rgba.F, fromRgbaComponent(rgba.args[2] % 256))
           /\ rgba.fn = "toArgb32" => rgba.ret = Uint(rgba.args[1], rgba.args[2])
Layout32 ==
    rgba.fn = "toArgb32"
        => /\ rgba.ret.hi \div 256 \in component8(rgba.a)
           /\ rgba.ret.hi % 256 \in component8(rgba.r)
           /\ rgba.ret.lo \div 256 \in component8(rgba.g)
           /\ rgba.ret.lo % 256 \in component8(rgba.b)
InByteRange == rgba.fn \in Accessors8 => (rgba.ret.hi = 0 /\ rgba.ret.lo \in 0..255)
C28_RoundTrip ==
    /\ RoundTrip8
    /\ RoundTrip32
    /\ Layout32
    /\ InByteRange
    /\ rgba.fn \in Accessors8 => InUnitRange(normalizedComponent(Accessed))
\* C28, amended: as claimed, except that a component is clamped to [0, 1]
\* first only if it is not a NaN: std::clamp hands a NaN on, and the accessor
\* returns what std::lround makes of it, narrowed to 8 bits.
C28_RoundTripNoNaN ==
    /\ RoundTrip8
    /\ RoundTrip32
    /\ Layout32
    /\ InByteRange
    /\ (rgba.fn \in Accessors8 /\ ~isNaN(Accessed))
          => InUnitRange(normalizedComponent(Accessed))
C28_Witness ==
    /\ rgba.made = "fromArgb32"
    /\ rgba.F = "qfloat16"
    /\ rgba.fn = "toArgb32"
    /\ rgba.args[1] \div 256 = 131
    /\ rgba.r # fromRgbaComponent(rgba.args[1] % 256)
    /\ rgba.ret = Uint(rgba.args[1], rgba.args[2])
    /\ rgba.ret.hi > 32767

====
